---------------------------- MODULE Spec2Model ----------------------------
(***************************************************************************)
(* Model of the data-transformation core of the artist dashboard           *)
(* (data/data_processor.py): weekly / monthly roll-ups and the date-range  *)
(* filter, which work on the DataFrame object they are handed, and the     *)
(* copy-based trend calculations (growth rate, moving average).            *)
(*                                                                         *)
(* A DataFrame is a record [columns, dtype, rows]: the column names in     *)
(* order, the dtype of the date column, and the rows in order, each row a  *)
(* function from column name to cell.  A cell is a record [k, n, d]:       *)
(*   k = "num"  the number n / d (d > 0, lowest terms)                     *)
(*   k = "nan"  NaN, pandas' undefined marker                              *)
(*   k = "inf"  infinity of sign n                                         *)
(*   k = "ts"   the Timestamp n days after 1970-01-01                      *)
(*   k = "str"  the text YYYY-MM-DD whose digits read as the number n      *)
(***************************************************************************)
EXTENDS Integers, Sequences, FiniteSets, TLC

VARIABLES
    orig,     \* the table as the caller built it, kept for comparison
    data,     \* the DataFrame object handed to every call
    pc,       \* per thread: the line of the running call, or idle/done/raised
    call,     \* per thread: the running call, its arguments and locals
    ret,      \* per thread: the table (or the array of numbers) the call returned
    ncalls,   \* calls started so far
    exc,      \* per thread: the exception the call raised
    access_token,  \* SpotifyService.access_token
    token_expiry,  \* SpotifyService.token_expiry
    now,           \* the clock read by datetime.now(), in seconds
    frame,         \* the running call on the service: its line and locals
    log            \* the HTTP requests of the running call, with their responses

vars == <<orig, data, pc, call, ret, ncalls, exc,
          access_token, token_expiry, now, frame, log>>

(* the service and its surroundings, untouched by the table functions *)
svars == <<access_token, token_expiry, now, frame, log>>

----------------------------------------------------------------------------
(* Bounds of the model *)

MaxRows == 2
MaxValue == 2
MaxCalls == 2
MaxTrendRows == 4
MaxWindow == 3
MaxStep == 2
MaxPeriods == 2
MaxFitRows == 3
MaxPivotRows == 2
MaxTicks == 2
MaxJumps == 1
MaxPages == 2
MaxItems == 1
MaxSeed == 2
MaxSolverError == 8
TicksPerDay == 2
MaxDrift == 1
RandomBits == 3

(* Program constants *)

SampleDays == 30
SampleBase == 100
SampleStep == 10
DefaultWindow == 7
ForecastWindow == 7
NMetrics == 4
NAgeGroups == 6
DefaultExpiresIn == 3600

Threads == {1, 2}

----------------------------------------------------------------------------
(* Cells *)

(* A cell is [k, n, d, u].  A number is the float64 that lies u floats
   further from zero than the float64 nearest to n / d: an integer, a
   correctly rounded quotient or mean have u = 0, and u # 0 where the code
   rounds more than once.  Next to zero, where n = 0, the number is
   u * 2^-TinyBits.  A Timestamp is day n since 1970-01-01 at u ticks of
   the clock after midnight, a day being TicksPerDay ticks. *)
Num(x) == [k |-> "num", n |-> x, d |-> 1, u |-> 0]
NaN == [k |-> "nan", n |-> 0, d |-> 0, u |-> 0]
Inf(s) == [k |-> "inf", n |-> s, d |-> 0, u |-> 0]
TsAt(days, ticks) == [k |-> "ts", n |-> days, d |-> 1, u |-> ticks]
Ts(days) == TsAt(days, 0)
Str(digits) == [k |-> "str", n |-> digits, d |-> 1, u |-> 0]
None == [k |-> "none", n |-> 0, d |-> 0, u |-> 0]

Abs(x) == IF x < 0 THEN -x ELSE x

RECURSIVE GCD(_, _)
GCD(a, b) == IF b = 0 THEN a ELSE GCD(b, a % b)

(* the number n / d, d # 0, in lowest terms with a positive denominator *)
Frac(n, d) ==
    LET g == GCD(Abs(n), Abs(d))
        s == IF d < 0 THEN -1 ELSE 1
    IN  [k |-> "num", n |-> (s * n) \div g, d |-> (s * d) \div g, u |-> 0]

(* float subtraction: NaN propagates *)
FSub(a, b) ==
    IF a.k = "nan" \/ b.k = "nan" THEN NaN
    ELSE IF a.k = "inf" /\ b.k = "inf" THEN (IF a.n = b.n THEN NaN ELSE a)
    ELSE IF a.k = "inf" THEN a
    ELSE IF b.k = "inf" THEN Inf(-b.n)
    ELSE Frac(a.n * b.d - b.n * a.d, a.d * b.d)

FAdd(a, b) == FSub(a, FSub(Num(0), b))

(* float division as numpy does it: x/0 is +-inf, 0/0 is NaN, no exception *)
FDiv(a, b) ==
    IF a.k = "nan" \/ b.k = "nan" THEN NaN
    ELSE IF a.k = "inf" /\ b.k = "inf" THEN NaN
    ELSE IF a.k = "inf" THEN (IF b.n < 0 THEN Inf(-a.n) ELSE a)
    ELSE IF b.k = "inf" THEN Num(0)
    ELSE IF b.n = 0 THEN (IF a.n = 0 THEN NaN ELSE IF a.n > 0 THEN Inf(1) ELSE Inf(-1))
    ELSE Frac(a.n * b.d, a.d * b.n)

(* float multiplication: inf * 0 is NaN *)
FMul(a, b) ==
    IF a.k = "nan" \/ b.k = "nan" THEN NaN
    ELSE IF a.k = "inf" \/ b.k = "inf"
         THEN (IF a.n = 0 \/ b.n = 0 THEN NaN
               ELSE Inf(IF (a.n > 0) = (b.n > 0) THEN 1 ELSE -1))
    ELSE Frac(a.n * b.n, a.d * b.d)


----------------------------------------------------------------------------
(* IEEE 754 binary64, as numpy and Python compute.  A natural number of any
   size is the sequence of its digits in base 2^15, lowest first, without
   leading zeros. *)

LimbBits == 15
Base == 2^LimbBits
MantissaBits == 53

Max(S) == CHOOSE m \in S : \A x \in S : x <= m

BNorm(a) == SubSeq(a, 1, Max({0} \cup {i \in 1..Len(a) : a[i] # 0}))

(* 0 <= x < 2^31 *)
BFromInt(x) == BNorm(<<x % Base, (x \div Base) % Base, x \div (Base * Base)>>)

Limb(a, i) == IF i <= Len(a) THEN a[i] ELSE 0

(* a number known to be small *)
BToInt(a) == Limb(a, 1) + Base * Limb(a, 2)

BCmpAt(a, b, k) == IF k = 0 THEN 0 ELSE IF a[k] < b[k] THEN -1 ELSE 1

BCmp(a, b) ==
    IF Len(a) # Len(b) THEN (IF Len(a) < Len(b) THEN -1 ELSE 1)
    ELSE BCmpAt(a, b, Max({0} \cup {i \in 1..Len(a) : a[i] # b[i]}))

(* the carry into digit i of a + b: a digit below i overflows and every digit
   between the two is full *)
Carry(a, b, i) ==
    \E j \in 1..(i - 1) :
        /\ Limb(a, j) + Limb(b, j) >= Base
        /\ \A k \in (j + 1)..(i - 1) : Limb(a, k) + Limb(b, k) = Base - 1

BAdd(a, b) ==
    BNorm([i \in 1..(Max({Len(a), Len(b)}) + 1) |->
            (Limb(a, i) + Limb(b, i) + (IF Carry(a, b, i) THEN 1 ELSE 0)) % Base])

(* the borrow from digit i of a - b: a digit below i falls short and every
   digit between the two is level *)
Borrow(a, b, i) ==
    \E j \in 1..(i - 1) :
        /\ Limb(a, j) < Limb(b, j)
        /\ \A k \in (j + 1)..(i - 1) : Limb(a, k) = Limb(b, k)

(* a - b for a >= b *)
BSub(a, b) ==
    BNorm([i \in 1..Len(a) |->
            (a[i] - Limb(b, i) - (IF Borrow(a, b, i) THEN 1 ELSE 0)) % Base])

(* a * m for 0 <= m < Base: the low halves of the products of the digits,
   and their high halves one digit up *)
BMulSmall(a, m) ==
    BAdd([i \in 1..Len(a) |-> (a[i] * m) % Base],
         <<0>> \o [i \in 1..Len(a) |-> (a[i] * m) \div Base])

BShiftLimbs(a, k) == IF a = <<>> THEN <<>> ELSE [i \in 1..k |-> 0] \o a

(* a times the digits lo..hi of b, each at its place, added up by halves *)
RECURSIVE BMulRange(_, _, _, _)
BMulRange(a, b, lo, hi) ==
    IF lo > hi THEN <<>>
    ELSE IF lo = hi THEN BShiftLimbs(BMulSmall(a, b[lo]), lo - 1)
    ELSE BAdd(BMulRange(a, b, lo, (lo + hi) \div 2),
              BMulRange(a, b, ((lo + hi) \div 2) + 1, hi))

BMul(a, b) == BMulRange(a, b, 1, Len(b))

(* 2^bits *)
BPow2(bits) ==
    [i \in 1..((bits \div LimbBits) + 1) |->
        IF i = (bits \div LimbBits) + 1 THEN 2^(bits % LimbBits) ELSE 0]

(* a * 2^bits: digit i takes the low bits of one digit of a and the high
   bits of the digit below it *)
BShl(a, bits) ==
    BNorm([i \in 1..(Len(a) + (bits \div LimbBits) + 1) |->
            IF i <= bits \div LimbBits THEN 0
            ELSE ((Limb(a, i - (bits \div LimbBits)) * 2^(bits % LimbBits)) % Base)
                 + (IF i - (bits \div LimbBits) = 1 THEN 0
                    ELSE a[i - (bits \div LimbBits) - 1]
                         \div 2^(LimbBits - (bits % LimbBits)))])

(* a mod 2^bits *)
BLow(a, bits) ==
    BNorm([i \in 1..((bits \div LimbBits) + 1) |->
            IF i <= bits \div LimbBits THEN Limb(a, i)
            ELSE Limb(a, i) % 2^(bits % LimbBits)])

(* the largest digit q with b * q <= r, found three bits at a time from the
   highest bits down: q is the digit so far and step the weight of the bits
   to find next *)
RECURSIVE QDigit(_, _, _, _)
QDigit(r, b, q, step) ==
    IF step = 0 THEN q
    ELSE QDigit(r, b,
                q + step * Max({k \in 0..7 : BCmp(BMulSmall(b, q + k * step), r) <= 0}),
                step \div 8)

(* the digits i and up of a, taken modulo one digit m *)
RECURSIVE RemSmall(_, _, _)
RemSmall(a, m, i) ==
    IF i > Len(a) THEN 0 ELSE (RemSmall(a, m, i + 1) * Base + a[i]) % m

(* quotient and remainder of a by one digit m *)
BDivSmall(a, m) ==
    [q |-> BNorm([i \in 1..Len(a) |-> (RemSmall(a, m, i + 1) * Base + a[i]) \div m]),
     r |-> BFromInt(RemSmall(a, m, 1))]

(* long division by b of two digits or more, from digit i of a down to digit
   1: q holds the digits of the quotient found so far and r the remainder so
   far; cur is r with digit i of a put below it, and digit is how often cur
   holds b *)
RECURSIVE BDivFrom(_, _, _, _, _)
BDivTake(a, b, i, q, cur, digit) ==
    IF digit = 0 THEN BDivFrom(a, b, i - 1, <<0>> \o q, cur)
    ELSE BDivFrom(a, b, i - 1, <<digit>> \o q, BSub(cur, BMulSmall(b, digit)))

BDivPut(a, b, i, q, cur) == BDivTake(a, b, i, q, cur, QDigit(cur, b, 0, Base \div 8))

BDivFrom(a, b, i, q, r) ==
    IF i = 0 THEN [q |-> BNorm(q), r |-> r]
    ELSE BDivPut(a, b, i, q, BNorm(<<a[i]>> \o r))

(* quotient and remainder of a by b # 0; the highest digits of a, one fewer
   than b has, are the first remainder *)
BDivMod(a, b) ==
    IF Len(b) = 1 THEN BDivSmall(a, b[1])
    ELSE IF Len(a) < Len(b) THEN [q |-> <<>>, r |-> a]
    ELSE BDivFrom(a, b, Len(a) - Len(b) + 1, <<>>,
                  SubSeq(a, Len(a) - Len(b) + 2, Len(a)))

(* floor(a / 2^bits) *)
BShr(a, bits) ==
    BNorm([i \in 1..(Len(a) - (bits \div LimbBits)) |->
            (a[i + (bits \div LimbBits)] \div 2^(bits % LimbBits))
            + (Limb(a, i + (bits \div LimbBits) + 1) % 2^(bits % LimbBits))
              * 2^(LimbBits - (bits % LimbBits))])

IntBitLen(x) == CHOOSE k \in 1..(LimbBits + 1) : 2^(k - 1) <= x /\ x < 2^k

BBitLen(a) ==
    IF a = <<>> THEN 0 ELSE LimbBits * (Len(a) - 1) + IntBitLen(a[Len(a)])

BIsOdd(a) == a # <<>> /\ a[1] % 2 = 1

(* A finite float64 is s * m * 2^e with s the sign and m of exactly 53 bits
   (zero: s = 0).  Subnormal numbers and overflow are not reached by the
   numbers of the tables. *)
DZero == [s |-> 0, m |-> <<>>, e |-> 0]

Double(s, m, e) == [s |-> s, m |-> m, e |-> e]

(* round to nearest, ties to even: the float64 nearest to s * (N + f) * 2^e,
   where 0 <= f < 1 and inexact says that f > 0.  N is cut to its highest 53
   bits q; c compares what was cut off with half a unit of q. *)
DRenorm(s, q, e) ==
    IF BBitLen(q) > MantissaBits THEN Double(s, BShr(q, 1), e + 1) ELSE Double(s, q, e)

DRoundsUp(c, q, inexact) == IF inexact \/ BIsOdd(q) THEN c >= 0 ELSE c > 0

DRoundTo(s, q, e, up) == IF up THEN DRenorm(s, BAdd(q, <<1>>), e) ELSE Double(s, q, e)

DRoundCut(s, N, e, inexact, sh, q) ==
    DRoundTo(s, q, e + sh, DRoundsUp(BCmp(BLow(N, sh), BPow2(sh - 1)), q, inexact))

DRoundLen(s, N, e, inexact, len) ==
    IF len <= MantissaBits
    THEN Double(s, BShl(N, MantissaBits - len), e - (MantissaBits - len))
    ELSE DRoundCut(s, N, e, inexact, len - MantissaBits, BShr(N, len - MantissaBits))

DRound(s, N, e, inexact) == DRoundLen(s, N, e, inexact, BBitLen(N))

Sign(x) == IF x < 0 THEN -1 ELSE IF x = 0 THEN 0 ELSE 1

(* the float64 nearest to s * (P / Q) * 2^e, the quotient taken to shift
   bits after the point, which leaves it 55 bits or more *)
DQuotOut(s, x, e) == DRound(s, x.q, e, x.r # <<>>)

DQuot(s, P, Q, e, shift) == DQuotOut(s, BDivMod(BShl(P, shift), Q), e - shift)

(* what a division is made of: two integers or two float64 *)
RatParts(p, q) ==
    [s |-> Sign(p) * Sign(q), P |-> BFromInt(Abs(p)), Q |-> BFromInt(Abs(q)), e |-> 0]

DivParts(x, y) == [s |-> x.s * y.s, P |-> x.m, Q |-> y.m, e |-> x.e - y.e]

DQuotOf(parts) ==
    IF parts.s = 0 THEN DZero
    ELSE DQuot(parts.s, parts.P, parts.Q, parts.e,
               MantissaBits + 3 + BBitLen(parts.Q) - BBitLen(parts.P))

(* the float64 nearest to p / q, for integers p and q # 0 *)
DFromRat(p, q) == DQuotOf(RatParts(p, q))

DNeg(x) == [x EXCEPT !.s = -x.s]

DMul(x, y) ==
    IF x.s = 0 \/ y.s = 0 THEN DZero
    ELSE DRound(x.s * y.s, BMul(x.m, y.m), x.e + y.e, FALSE)

DDiv(x, y) == DQuotOf(DivParts(x, y))

(* x + y: both to one exponent, then the sum or the difference of the two
   magnitudes X and Y, c comparing them *)
DAddOut(sx, sy, X, Y, e, c) ==
    IF sx # sy /\ c = 0 THEN DZero
    ELSE DRound(IF sx = sy \/ c > 0 THEN sx ELSE sy,
                IF sx = sy THEN BAdd(X, Y) ELSE IF c > 0 THEN BSub(X, Y) ELSE BSub(Y, X),
                e, FALSE)

DAddMag(sx, sy, X, Y, e) == DAddOut(sx, sy, X, Y, e, BCmp(X, Y))

DAddAt(x, y, e) == DAddMag(x.s, y.s, BShl(x.m, x.e - e), BShl(y.m, y.e - e), e)

DAdd(x, y) ==
    IF x.s = 0 THEN y
    ELSE IF y.s = 0 THEN x
    ELSE DAddAt(x, y, IF x.e < y.e THEN x.e ELSE y.e)

DSub(x, y) == DAdd(x, DNeg(y))

(* |x| <= |y| for non-zero x and y, and x <= y *)
DMagLeq(x, y) == x.e < y.e \/ (x.e = y.e /\ BCmp(x.m, y.m) <= 0)

DLeq(x, y) ==
    IF x.s # y.s THEN x.s <= y.s
    ELSE IF x.s = 0 THEN TRUE
    ELSE IF x.s = 1 THEN DMagLeq(x, y)
    ELSE DMagLeq(y, x)

(* 2^52, the lowest 53-bit number *)
Half == BPow2(MantissaBits - 1)

(* m - n for big naturals, as an integer known to be small *)
BDiff(m, n) == IF BCmp(m, n) >= 0 THEN BToInt(BSub(m, n)) ELSE -BToInt(BSub(n, m))

(* how many float64 x lies further from zero than y, both of one sign and
   close to each other *)
DUlps(x, y) ==
    IF x.e = y.e THEN BDiff(x.m, y.m)
    ELSE IF x.e = y.e + 1 THEN BDiff(BAdd(x.m, Half), y.m)
    ELSE BDiff(x.m, BAdd(y.m, Half))

(* the float64 u places further from zero than x *)
DStepTo(x, m) ==
    IF BBitLen(m) > MantissaBits THEN Double(x.s, BSub(m, Half), x.e + 1)
    ELSE IF BBitLen(m) < MantissaBits THEN Double(x.s, BAdd(m, Half), x.e - 1)
    ELSE Double(x.s, m, x.e)

DStep(x, u) ==
    IF u = 0 \/ x.s = 0 THEN x
    ELSE DStepTo(x, IF u >= 0 THEN BAdd(x.m, BFromInt(u)) ELSE BSub(x.m, BFromInt(-u)))

(* the float64 u * 2^-TinyBits, and the u of such a float64 *)
TinyBits == 60

DTiny(u) ==
    IF u = 0 THEN DZero ELSE DRound(Sign(u), BFromInt(Abs(u)), -TinyBits, FALSE)

DQuanta(x) ==
    IF x.s = 0 THEN 0
    ELSE IF x.e + TinyBits >= 0 THEN x.s * BToInt(BShl(x.m, x.e + TinyBits))
    ELSE x.s * BToInt(BShr(x.m, -(x.e + TinyBits)))

(* the float64 a number cell holds, and the cell that holds a float64 x
   known to lie next to n / d, near being the float64 nearest to n / d *)
ToDouble(cell) ==
    IF cell.n = 0 THEN DTiny(cell.u) ELSE DStep(DFromRat(cell.n, cell.d), cell.u)

Doubles(cells) == [i \in 1..Len(cells) |-> ToDouble(cells[i])]

FromDouble(x, ideal, near) ==
    [ideal EXCEPT !.u = IF ideal.n = 0 THEN DQuanta(x) ELSE DUlps(x, near)]

(* a <= b on floats; every comparison with NaN is false *)
FLeqDoubles(ds) == DLeq(ds[1], ds[2])

FLeq(a, b) ==
    IF a.k = "nan" \/ b.k = "nan" THEN FALSE
    ELSE IF a.k = "inf" THEN (a.n < 0 \/ (b.k = "inf" /\ b.n > 0))
    ELSE IF b.k = "inf" THEN b.n > 0
    ELSE FLeqDoubles(Doubles(<<a, b>>))

IsPowerOfTwo(d) == \E i \in 0..30 : d = 2^i

(* the cell holds exactly n / d *)
Exact(cell) == cell.k = "num" /\ cell.u = 0 /\ IsPowerOfTwo(cell.d)

(* a - b, a + b, a * b and a / b rounded to float64: one rounding of the
   exact result when both operands are exact, and no rounding at all when 0
   is added or the factor or the divisor is 1. *)
Ideal(op, a, b) ==
    IF op = "add" THEN FAdd(a, b)
    ELSE IF op = "sub" THEN FSub(a, b)
    ELSE IF op = "mul" THEN FMul(a, b)
    ELSE FDiv(a, b)

DOp(op, x, y) ==
    IF op = "mul" THEN DMul(x, y)
    ELSE IF op = "div" THEN DDiv(x, y)
    ELSE DAdd(x, IF op = "sub" THEN DNeg(y) ELSE y)

Neutral(op, cell) ==
    \/ op \in {"add", "sub"} /\ cell = Num(0)
    \/ op \in {"mul", "div"} /\ cell = Num(1)

Op64Out(op, ideal, ds) == FromDouble(DOp(op, ds[1], ds[2]), ideal, ds[3])

Op64Ideal(op, a, b, ideal) ==
    IF a.k = "num" /\ Neutral(op, b) THEN a
    ELSE IF b.k = "num" /\ op \in {"add", "mul"} /\ Neutral(op, a) THEN b
    ELSE IF ideal.k # "num" \/ a.k # "num" \/ b.k # "num" \/ (Exact(a) /\ Exact(b)) THEN ideal
    ELSE Op64Out(op, ideal, Doubles(<<a, b, ideal>>))

Op64(op, a, b) == Op64Ideal(op, a, b, Ideal(op, a, b))

Sub64(a, b) == Op64("sub", a, b)

Add64(a, b) == Op64("add", a, b)

Mul64(a, b) == Op64("mul", a, b)

Div64(a, b) == Op64("div", a, b)

----------------------------------------------------------------------------
(* The proleptic Gregorian calendar on day numbers (days since 1970-01-01) *)

DaysFromCivil(y0, m, d) ==
    LET y == IF m <= 2 THEN y0 - 1 ELSE y0
        era == y \div 400
        yoe == y - era * 400
        mp == IF m > 2 THEN m - 3 ELSE m + 9
        doy == (153 * mp + 2) \div 5 + d - 1
        doe == yoe * 365 + yoe \div 4 - yoe \div 100 + doy
    IN  era * 146097 + doe - 719468

CivilFromDays(days) ==
    LET z == days + 719468
        era == z \div 146097
        doe == z - era * 146097
        yoe == (doe - doe \div 1460 + doe \div 36524 - doe \div 146096) \div 365
        doy == doe - (365 * yoe + yoe \div 4 - yoe \div 100)
        mp == (5 * doy + 2) \div 153
        dd == doy - (153 * mp + 2) \div 5 + 1
        mm == IF mp < 10 THEN mp + 3 ELSE mp - 9
        yy == yoe + era * 400 + (IF mm <= 2 THEN 1 ELSE 0)
    IN  [year |-> yy, month |-> mm, day |-> dd]

dt_year(days) == CivilFromDays(days).year
dt_month(days) == CivilFromDays(days).month

(* Monday = 0 ... Sunday = 6; 1970-01-01 was a Thursday *)
Weekday(days) == (days + 3) % 7

(* the Thursday of the ISO week of a day decides its ISO year and week *)
IsoThursday(days) == days - Weekday(days) + 3
isocalendar_year(days) == dt_year(IsoThursday(days))
isocalendar_week(days) ==
    (IsoThursday(days) - DaysFromCivil(isocalendar_year(days), 1, 1)) \div 7 + 1

IsLeap(y) == (y % 4 = 0 /\ y % 100 # 0) \/ y % 400 = 0
DaysInMonth(y, m) ==
    IF m = 2 THEN (IF IsLeap(y) THEN 29 ELSE 28)
    ELSE IF m \in {4, 6, 9, 11} THEN 30 ELSE 31

(* the text YYYY-MM-DD of a day, and the parse pd.to_datetime makes of one *)
FormatDate(days) ==
    LET c == CivilFromDays(days) IN c.year * 10000 + c.month * 100 + c.day
StrYear(s) == s \div 10000
StrMonth(s) == (s \div 100) % 100
StrDay(s) == s % 100
Parseable(cell) ==
    \/ cell.k = "ts"
    \/ /\ cell.k = "str"
       /\ StrMonth(cell.n) \in 1..12
       /\ StrDay(cell.n) \in 1..DaysInMonth(StrYear(cell.n), StrMonth(cell.n))
to_datetime(cell) ==
    IF cell.k = "ts" THEN cell
    ELSE Ts(DaysFromCivil(StrYear(cell.n), StrMonth(cell.n), StrDay(cell.n)))

----------------------------------------------------------------------------
(* DataFrames *)

Range(s) == {s[i] : i \in DOMAIN s}

(* s[lo] + ... + s[hi], added up by halves *)
RECURSIVE SumRange(_, _, _)
SumRange(s, lo, hi) ==
    IF lo > hi THEN 0
    ELSE IF lo = hi THEN s[lo]
    ELSE LET mid == (lo + hi) \div 2
         IN  SumRange(s, lo, mid) + SumRange(s, mid + 1, hi)

SeqSum(s) == SumRange(s, 1, Len(s))

Row(date, value) == [c \in {"date", "value"} |-> IF c = "date" THEN date ELSE Num(value)]

Frame(dtype, rows) == [columns |-> <<"date", "value">>, dtype |-> dtype, rows |-> rows]

HasColumn(df, col) == col \in Range(df.columns)

(* data[col] = values: a new column goes last, an existing one keeps its place *)
SetColumn(df, col, values) ==
    [df EXCEPT
        !.columns = IF HasColumn(df, col) THEN @ ELSE Append(@, col),
        !.rows = [i \in 1..Len(df.rows) |->
                     [c \in (DOMAIN df.rows[i]) \cup {col} |->
                         IF c = col THEN values[i] ELSE df.rows[i][c]]]]

(* the sum of a numeric column, as an integer *)
ColumnSum(df, col) == SeqSum([i \in 1..Len(df.rows) |-> df.rows[i][col].n])

is_datetime64_dtype(df) == df.dtype = "datetime64"

(* mutant: errors='coerce', no text is rejected *)
ColumnParseable_coerce(df) == TRUE

(* mutant: the first entry is looked at before parsing, which fails on an empty column *)
ColumnParseable_first(df) ==
    Len(df.rows) >= 1 /\ \A i \in 1..Len(df.rows) : Parseable(df.rows[i]["date"])

ColumnParseable(df) == \A i \in 1..Len(df.rows) : Parseable(df.rows[i]["date"])

(* data[date_column] = pd.to_datetime(data[date_column]) *)
ConvertDateColumn(df) ==
    [SetColumn(df, "date", [i \in 1..Len(df.rows) |-> to_datetime(df.rows[i]["date"])])
        EXCEPT !.dtype = "datetime64"]

----------------------------------------------------------------------------
(* groupby(['year', key2]).agg({value: 'sum', date: 'first'}).reset_index() *)

GroupKey(row, key2) == <<row["year"].n, row[key2].n>>

(* mutant: the groups ordered by week or month first, then by year *)
KeyLess_weekfirst(a, b) == a[2] < b[2] \/ (a[2] = b[2] /\ a[1] < b[1])

KeyLess(a, b) == a[1] < b[1] \/ (a[1] = b[1] /\ a[2] < b[2])

(* the distinct keys in ascending order: groupby sorts its groups *)
RECURSIVE SortedKeys(_)
SortedKeys(S) ==
    IF S = {} THEN <<>>
    ELSE LET m == CHOOSE x \in S : \A y \in S : x = y \/ KeyLess(x, y)
         IN  <<m>> \o SortedKeys(S \ {m})

GroupRows(df, key2, key) == SelectSeq(df.rows, LAMBDA r : GroupKey(r, key2) = key)

(* mutant: the value column aggregated with 'first' instead of 'sum' *)
AggSum_first(rows) == rows[1]["value"].n

AggSum(rows) == SeqSum([i \in 1..Len(rows) |-> rows[i]["value"].n])

(* mutant: the date aggregated with 'last' instead of 'first' *)
AggFirst_last(rows) == rows[Len(rows)]["date"]

AggFirst(rows) == rows[1]["date"]

groupby_agg(df, key2) ==
    LET keys == SortedKeys({GroupKey(df.rows[i], key2) : i \in 1..Len(df.rows)})
        out(key) ==
            LET g == GroupRows(df, key2, key)
            IN  [c \in {"year", key2, "value", "date"} |->
                    IF c = "year" THEN Num(key[1])
                    ELSE IF c = key2 THEN Num(key[2])
                    ELSE IF c = "value" THEN Num(AggSum(g))
                    ELSE AggFirst(g)]
    IN  [columns |-> <<"year", key2, "value", "date">>,
         dtype |-> df.dtype,
         rows |-> [i \in 1..Len(keys) |-> out(keys[i])]]

(* the helper columns the two roll-ups write into the frame they are given *)
WeekColumn(df) == [i \in 1..Len(df.rows) |-> Num(isocalendar_week(df.rows[i]["date"].n))]
IsoYearColumn(df) == [i \in 1..Len(df.rows) |-> Num(isocalendar_year(df.rows[i]["date"].n))]
MonthColumn(df) == [i \in 1..Len(df.rows) |-> Num(dt_month(df.rows[i]["date"].n))]
YearColumn(df) == [i \in 1..Len(df.rows) |-> Num(dt_year(df.rows[i]["date"].n))]

(* a <= b on Timestamps, and the Timestamp a number of days before another *)
TsLeq(a, b) == a.n < b.n \/ (a.n = b.n /\ a.u <= b.u)

MinusDays(ts, days) == [ts EXCEPT !.n = @ - days]

(* data[(data[date] >= start) & (data[date] <= end)] *)
(* mutant: the end bound taken as exclusive *)
InRange_exclusive(row, start, end) ==
    TsLeq(start, row["date"]) /\ TsLeq(row["date"], end) /\ row["date"] # end

InRange(row, start, end) == TsLeq(start, row["date"]) /\ TsLeq(row["date"], end)

(* mutant: a positional slice of the rows in range that stops one row early *)
FilterRows_slice(df, start, end) ==
    LET hit == SelectSeq(df.rows, LAMBDA r : InRange(r, start, end))
    IN  [df EXCEPT !.rows = SubSeq(hit, 1, Len(hit) - 1)]

FilterRows(df, start, end) ==
    [df EXCEPT !.rows = SelectSeq(df.rows, LAMBDA r : InRange(r, start, end))]

----------------------------------------------------------------------------
(* The calls run alone, start to finish, on a frame of their own *)

NoFrame == [columns |-> <<>>, dtype |-> "none", rows |-> <<>>]

(* mutant: the bounds are compared as they were given *)
NormalizeBound_asis(bound) == bound

(* if isinstance(bound, str): bound = pd.to_datetime(bound) *)
NormalizeBound(bound) == IF bound.k = "str" THEN to_datetime(bound) ELSE bound

EnsureDatetime(df) == IF is_datetime64_dtype(df) THEN df ELSE ConvertDateColumn(df)

convert_to_weekly(df) ==
    LET d1 == EnsureDatetime(df)
        d2 == SetColumn(d1, "week", WeekColumn(d1))
        d3 == SetColumn(d2, "year", IsoYearColumn(d2))
    IN  groupby_agg(d3, "week")

convert_to_monthly(df) ==
    LET d1 == EnsureDatetime(df)
        d2 == SetColumn(d1, "month", MonthColumn(d1))
        d3 == SetColumn(d2, "year", YearColumn(d2))
    IN  groupby_agg(d3, "month")

filter_by_date_range(df, start, end) ==
    FilterRows(EnsureDatetime(df), NormalizeBound(start), NormalizeBound(end))

----------------------------------------------------------------------------
(* The copy-based trend calculations *)

(* mutant: no copy is taken, the columns land in the caller's table *)
CallerTable_alias(df, result) == result

(* data = data.copy(): the new columns are assigned to the copy, which is
   returned; the table of the caller is the one it passed in *)
CallerTable(df, result) == df

(* mutant: shift(-1), the next row's value taken for the previous one *)
PreviousValue_next(df) ==
    [i \in 1..Len(df.rows) |->
        IF i = Len(df.rows) THEN NaN ELSE df.rows[i + 1]["value"]]

(* data[value_column].shift(1): a float column, NaN in the first row *)
PreviousValue(df) ==
    [i \in 1..Len(df.rows) |-> IF i = 1 THEN NaN ELSE df.rows[i - 1]["value"]]

(* mutant: the change divided by the current value instead of the previous *)
GrowthCell_bycurrent(cur, prev) == Div64(Sub64(cur, prev), cur)

(* (data[value_column] - data['previous_value']) / data['previous_value'] *)
GrowthCell(cur, prev) == Div64(Sub64(cur, prev), prev)

calculate_growth_rate(df) ==
    LET d1 == SetColumn(df, "previous_value", PreviousValue(df))
    IN  SetColumn(d1, "growth_rate",
                  [i \in 1..Len(d1.rows) |->
                      GrowthCell(d1.rows[i]["value"], d1.rows[i]["previous_value"])])

(* f'{value_column}_ma{window}' *)
MaColumn(window) == "value_ma" \o ToString(window)

WindowSum(df, from, to) == SeqSum([j \in 1..(to - from + 1) |-> df.rows[from + j - 1]["value"].n])

(* mutant: the window ends one row before the current row *)
RollingMean_lagged(df, i, window) ==
    IF i <= window THEN NaN ELSE Frac(WindowSum(df, i - window, i - 1), window)

(* rolling(window).mean() at row i: NaN until the window is full *)
RollingMean(df, i, window) ==
    IF i < window THEN NaN ELSE Frac(WindowSum(df, i - window + 1, i), window)

(* mutant: min_periods=1, a mean of the rows there are *)
calculate_moving_average_partial(df, window) ==
    SetColumn(df, MaColumn(window),
              [i \in 1..Len(df.rows) |->
                  IF i < window THEN Frac(WindowSum(df, 1, i), i)
                  ELSE RollingMean(df, i, window)])

calculate_moving_average(df, window) ==
    SetColumn(df, MaColumn(window),
              [i \in 1..Len(df.rows) |-> RollingMean(df, i, window)])

(* mutant: the share left as a fraction, not multiplied by 100 *)
PctCell_fraction(v, total) == Div64(v, total)

(* data[value_column] / total * 100 *)
PctCell(v, total) == Mul64(Div64(v, total), Num(100))

(* total=None stands for the sum of the column *)
calculate_percentages(df, total) ==
    LET tot == IF total = None THEN Num(ColumnSum(df, "value")) ELSE total
    IN  SetColumn(df, "value_pct",
                  [i \in 1..Len(df.rows) |-> PctCell(df.rows[i]["value"], tot)])

----------------------------------------------------------------------------
(* pivot_data: pd.pivot_table(data, index, columns, values, aggfunc).  A
   category is a label cell holding its position in the sorted order of the
   category names, so the order of the labels is the order of the numbers. *)

Label(i) == [k |-> "label", n |-> i, d |-> 1, u |-> 0]

PivotRow(metric, age_group, value) ==
    [age_group |-> Label(age_group), metric |-> Label(metric), value |-> value]

PivotFrame(rows) ==
    [columns |-> <<"age_group", "metric", "value">>, dtype |-> "object", rows |-> rows]

(* the labels of a column, sorted and without repetition, as the axes of a
   pivot table are *)
RECURSIVE SortedLabels(_)
SortedLabels(S) ==
    IF S = {} THEN <<>>
    ELSE LET m == CHOOSE x \in S : \A y \in S : x <= y
         IN  <<m>> \o SortedLabels(S \ {m})

AxisLabels(df, col) == SortedLabels({df.rows[i][col].n : i \in 1..Len(df.rows)})

(* the values of the records of one combination, in row order *)
GroupValues(df, index, columns, r, c) ==
    LET at == SelectSeq(df.rows, LAMBDA row : row[index].n = r /\ row[columns].n = c)
    IN  [i \in 1..Len(at) |-> at[i]["value"]]

(* the sum of a group as groupby computes it: every value is added with the
   error of the additions before it taken back (Kahan summation) *)
KahanPut(st, y, t) == [sumx |-> t, compensation |-> DSub(DSub(t, st.sumx), y)]

KahanAdd(st, y) == KahanPut(st, y, DAdd(st.sumx, y))

KahanStep(st, x) == KahanAdd(st, DSub(x, st.compensation))

RECURSIVE KahanFold(_, _, _, _)
KahanFold(st, xs, lo, hi) ==
    IF lo > hi THEN st
    ELSE IF lo = hi THEN KahanStep(st, xs[lo])
    ELSE LET mid == (lo + hi) \div 2
         IN  KahanFold(KahanFold(st, xs, lo, mid), xs, mid + 1, hi)

RECURSIVE ExactRange(_, _, _)
ExactRange(cells, lo, hi) ==
    IF lo > hi THEN Num(0)
    ELSE IF lo = hi THEN cells[lo]
    ELSE LET mid == (lo + hi) \div 2
         IN  FAdd(ExactRange(cells, lo, mid), ExactRange(cells, mid + 1, hi))

GroupSumOut(st, ideal) == FromDouble(st.sumx, ideal, DFromRat(ideal.n, ideal.d))

GroupSumOf(cells, ideal) ==
    IF Len(cells) = 1 THEN cells[1]
    ELSE IF \A i \in 1..Len(cells) : Exact(cells[i]) THEN ideal
    ELSE GroupSumOut(KahanFold([sumx |-> DZero, compensation |-> DZero],
                               Doubles(cells), 1, Len(cells)),
                     ideal)

GroupSum(cells) == GroupSumOf(cells, ExactRange(cells, 1, Len(cells)))

(* aggfunc over the values of one group *)
Aggregate(aggfunc, v) ==
    IF aggfunc = "sum" THEN GroupSum(v)
    ELSE IF aggfunc = "count" THEN Num(Len(v))
    ELSE Div64(GroupSum(v), Num(Len(v)))

(* mutant: a combination without records is filled with zero *)
PivotCell_fill(df, index, columns, aggfunc, r, c) ==
    LET v == GroupValues(df, index, columns, r, c)
    IN  IF v = <<>> THEN Num(0) ELSE Aggregate(aggfunc, v)

(* one entry of the pivot table: fill_value is not given, so a combination
   without records stays NaN *)
PivotCell(df, index, columns, aggfunc, r, c) ==
    LET v == GroupValues(df, index, columns, r, c)
    IN  IF v = <<>> THEN NaN ELSE Aggregate(aggfunc, v)

pivot_data(df, index, columns, aggfunc) ==
    LET rs == AxisLabels(df, index)
        cs == AxisLabels(df, columns)
    IN  [columns |-> cs, dtype |-> "pivot",
         rows |-> [i \in 1..Len(rs) |->
                     [label |-> rs[i],
                      cells |-> [j \in 1..Len(cs) |->
                                   PivotCell(df, index, columns, aggfunc, rs[i], cs[j])]]]]

----------------------------------------------------------------------------
(* utils/analytics.py: percentile rank and forecasts.  A call ends in an
   outcome: a returned value or a raised exception. *)

(* an array or list of numbers, and a single number, as return values *)
Array(cells) == [columns |-> <<>>, dtype |-> "array", rows |-> cells]
Scalar(cell) == [columns |-> <<>>, dtype |-> "scalar", rows |-> <<cell>>]

Returns(v) == [ok |-> TRUE, value |-> v, exc |-> [type |-> "", message |-> ""]]
Raises(type, message) ==
    [ok |-> FALSE, value |-> NoFrame, exc |-> [type |-> type, message |-> message]]

(* a returned Series: one cell per row of the table *)
Series(cells) == [columns |-> <<>>, dtype |-> "series", rows |-> cells]

(* mutant: the running total without the row itself *)
CumSumCell_exclusive(df, i) == Num(SeqSum([j \in 1..(i - 1) |-> df.rows[j]["value"].n]))

(* entry i of data[column].cumsum(): the total of rows 0..i *)
CumSumCell(df, i) == Num(SeqSum([j \in 1..i |-> df.rows[j]["value"].n]))

calculate_cumulative_sum(df) == Series([i \in 1..Len(df.rows) |-> CumSumCell(df, i)])

(* mutant: a strict comparison, data < value *)
CountLeq_strict(df, value) ==
    Cardinality({i \in 1..Len(df.rows) : df.rows[i]["value"].n < value})

(* sum(data <= value): the number of entries not above the value *)
CountLeq(df, value) ==
    Cardinality({i \in 1..Len(df.rows) : df.rows[i]["value"].n <= value})

(* sum(data <= value) / len(data) * 100; int / int raises on an empty dataset *)
calculate_percentile(df, value) ==
    IF Len(df.rows) = 0 THEN Raises("ZeroDivisionError", "division by zero")
    ELSE Returns(Scalar(Mul64(Div64(Num(CountLeq(df, value)), Num(Len(df.rows))), Num(100))))

(* mutant: every unknown method falls back to the moving average *)
MethodBranch_fallback(method) ==
    IF method = "linear" THEN "linear" ELSE "moving_average"

(* the if / elif / else over the method string *)
MethodBranch(method) ==
    IF method = "linear" THEN "linear"
    ELSE IF method = "moving_average" THEN "moving_average"
    ELSE "unsupported"

(* the sums of the least-squares fit of value against x = 0 .. n-1 *)
SumX(n) == SeqSum([i \in 1..n |-> i - 1])
SumXX(n) == SeqSum([i \in 1..n |-> (i - 1) * (i - 1)])
SumY(df) == ColumnSum(df, "value")
SumXY(df) == SeqSum([i \in 1..Len(df.rows) |-> (i - 1) * df.rows[i]["value"].n])

(* the least-squares line of value against x = 0 .. n-1 in exact
   arithmetic, n >= 2: what the solver of np.polyfit approximates *)
LstsqSlope(df) ==
    Frac(Len(df.rows) * SumXY(df) - SumX(Len(df.rows)) * SumY(df),
         Len(df.rows) * SumXX(Len(df.rows)) - SumX(Len(df.rows)) * SumX(Len(df.rows)))

LstsqIntercept(df) ==
    FDiv(FSub(Num(SumY(df)), FMul(LstsqSlope(df), Num(SumX(Len(df.rows))))),
         Num(Len(df.rows)))

(* the binary exponent of a number cell that is not 0: 2^e <= |n / d| < 2^(e + 1) *)
Exponent(cell) ==
    Max({e \in (-10)..10 : IF e >= 0 THEN Abs(cell.n) >= 2^e * cell.d
                                     ELSE Abs(cell.n) * 2^(-e) >= cell.d})

(* the unit of the rounding of the solver is one unit in the last place of
   the largest of |value|, |slope| and |intercept|, a number of exponent e *)
MaxAbs(df) == Max({0} \cup {Abs(df.rows[i]["value"].n) : i \in 1..Len(df.rows)})

SolverUnit(df) ==
    Max({Exponent(c) : c \in {c \in {Num(MaxAbs(df)), LstsqSlope(df), LstsqIntercept(df)} :
                                 c.n # 0}})

(* j units, j # 0, the unit being 2^(e - 52) *)
DUnits(e, j) == DRound(Sign(j), BFromInt(Abs(j)), e - (MantissaBits - 1), FALSE)

(* the float64 j units above the float64 nearest to the number of an exact
   cell (rounded to float64 where the floats lie further apart than a unit) *)
Offset(cell, e, j) ==
    IF j = 0 THEN cell
    ELSE FromDouble(DAdd(ToDouble(cell), DUnits(e, j)), cell, ToDouble(cell))

(* a float64 that the source does not determine further: it is lo, hi or a
   float64 between the two *)
FromTo(lo, hi) == [lo |-> lo, hi |-> hi]

Around(cell, e) == FromTo(Offset(cell, e, -MaxSolverError), Offset(cell, e, MaxSolverError))

(* mutant: the slope of the fit with the x and y sums not subtracted *)
polyfit_raw(df) ==
    IF MaxAbs(df) = 0
    THEN [slope |-> FromTo(Num(0), Num(0)), intercept |-> FromTo(Num(0), Num(0))]
    ELSE [slope |-> Around(Frac(Len(df.rows) * SumXY(df),
                                Len(df.rows) * SumXX(Len(df.rows))
                                    - SumX(Len(df.rows)) * SumX(Len(df.rows))),
                           SolverUnit(df)),
          intercept |-> Around(LstsqIntercept(df), SolverUnit(df))]

(* slope, intercept = np.polyfit(x, y, 1) on two or more points.  numpy
   scales the columns of the matrix [x 1] by their norms, solves the
   least-squares problem by a singular value decomposition (LAPACK gelsd)
   and divides the solution by the norms.  All of it is float64 arithmetic
   whose roundings depend on the LAPACK the build links, so the source does
   not determine which float64 comes back: each coefficient is some float64
   no further than MaxSolverError units from the float64 nearest to its
   exact least-squares value.  A column of zeros has the solution 0 in every
   arithmetic. *)
polyfit(df) ==
    IF MaxAbs(df) = 0
    THEN [slope |-> FromTo(Num(0), Num(0)), intercept |-> FromTo(Num(0), Num(0))]
    ELSE [slope |-> Around(LstsqSlope(df), SolverUnit(df)),
          intercept |-> Around(LstsqIntercept(df), SolverUnit(df))]

(* future_y = slope * np.arange(n, n + periods) + intercept: the product is
   rounded to float64, then the sum *)
FutureY(slope, intercept, n, periods) ==
    [k \in 1..periods |-> Add64(Mul64(slope, Num(n + k - 1)), intercept)]

(* line 89 on coefficients known up to their bounds.  future_x is positive
   and a rounded product and a rounded sum never decrease when a factor or a
   term grows, so each forecast lies between the forecast of the two lower
   bounds and that of the two upper bounds *)
FutureBetween(c, n, periods) ==
    [k \in 1..periods |->
        FromTo(FutureY(c.slope.lo, c.intercept.lo, n, periods)[k],
                FutureY(c.slope.hi, c.intercept.hi, n, periods)[k])]

(* the linear method.  polyfit rejects an empty x (TypeError, its argument
   check).  On a single point the x column [0] has norm 0, the scaling
   divides 0 by 0 and the matrix handed to the solver holds NaN: gelsd then
   reports no convergence, which numpy raises as LinAlgError, or returns NaN,
   depending on the LAPACK of the build *)
predict_linear(df, periods) ==
    IF Len(df.rows) = 0 THEN {Raises("TypeError", "expected non-empty vector for x")}
    ELSE IF Len(df.rows) = 1
    THEN {Raises("LinAlgError", "SVD did not converge in Linear Least Squares"),
          Returns(Array(FutureBetween([slope |-> FromTo(NaN, NaN),
                                       intercept |-> FromTo(NaN, NaN)],
                                      Len(df.rows), periods)))}
    ELSE {Returns(Array(FutureBetween(polyfit(df), Len(df.rows), periods)))}

(* mutant: the window is always 7, also on a shorter table *)
ForecastWindowOf_fixed(n) == ForecastWindow

(* window = min(7, len(data)) *)
ForecastWindowOf(n) == IF n < ForecastWindow THEN n ELSE ForecastWindow

(* the moving-average method: [ma] * periods, ma the last rolling mean;
   .iloc[-1] of an empty series raises *)
predict_moving_average(df, periods) ==
    LET n == Len(df.rows)
    IN  IF n = 0 THEN Raises("IndexError", "single positional indexer is out-of-bounds")
        ELSE Returns(Array([k \in 1..periods |-> RollingMean(df, n, ForecastWindowOf(n))]))

UnsupportedMessage(method) == "Prediction method '" \o method \o "' not supported"

(* the outcomes of predict_future_value(data, column, periods, method) *)
predict_future_value(df, periods, method) ==
    IF MethodBranch(method) = "linear" THEN predict_linear(df, periods)
    ELSE IF MethodBranch(method) = "moving_average" THEN {predict_moving_average(df, periods)}
    ELSE {Raises("ValueError", UnsupportedMessage(method))}

----------------------------------------------------------------------------
(* services/spotify_service.py: the service object, the responses of the
   network, and the values a call returns *)

BASE_URL == "https://api.spotify.com/v1"
AUTH_URL == "https://accounts.spotify.com/api/token"

(* a token text and a point in time (seconds since the service was made) *)
Text(i) == [k |-> "text", n |-> i, d |-> 1, u |-> 0]
Time(x) == [k |-> "time", n |-> x, d |-> 1, u |-> 0]

(* None stands for a missing next link as well: `while url` ends on both *)
NoUrl == ""

NoBody == [id |-> "", name |-> ""]

(* response.json() of GET artists/<id> *)
ArtistBody(id) == [id |-> id, name |-> "Test Artist"]

(* a response that passed raise_for_status, by the keys of its JSON body *)
NoResponse ==
    [ok |-> FALSE, access_token |-> None, expires_in |-> None,
     body |-> NoBody, items |-> <<>>, next |-> NoUrl]

(* requests.exceptions.RequestException: no connection, or an error status *)
Failure == NoResponse

TokenResponse(token, expires_in) ==
    [NoResponse EXCEPT !.ok = TRUE, !.access_token = token, !.expires_in = expires_in]

ArtistResponse(id) == [NoResponse EXCEPT !.ok = TRUE, !.body = ArtistBody(id)]

PageResponse(items, next) ==
    [NoResponse EXCEPT !.ok = TRUE, !.items = items, !.next = next]

(* results.get("artists", {}).get("items"): the first artist found, if any *)
SearchResponse(found) ==
    [NoResponse EXCEPT !.ok = TRUE,
                       !.body = IF found THEN ArtistBody("artist_id") ELSE NoBody]

(* response.json() of GET tracks/<id> *)
TrackResponse(id) == [NoResponse EXCEPT !.ok = TRUE, !.body = [id |-> id, name |-> "Test Track"]]

ArtistUrl(id) == BASE_URL \o "/artists/" \o id

SearchUrl(name) == BASE_URL \o "/search?q=" \o name \o "&type=artist&limit=1"

TopTracksUrl(id) == BASE_URL \o "/artists/" \o id \o "/top-tracks?country=US"

TrackUrl(id) == BASE_URL \o "/tracks/" \o id

RelatedUrl(id) == BASE_URL \o "/artists/" \o id \o "/related-artists"

(* the first page is the URL the call builds; the later pages are the next
   links of the server *)
AlbumsUrl(id, page) ==
    BASE_URL \o "/artists/" \o id \o "/albums"
        \o (IF page = 1 THEN "" ELSE "?offset=" \o ToString(page - 1))

PageOf(url, id) == CHOOSE page \in 1..MaxPages : AlbumsUrl(id, page) = url

(* the albums of a page, each knowing its page and its place on it *)
PageItems(page, n) == [j \in 1..n |-> [page |-> page, no |-> j]]

(* what the server may answer for a page: any number of items, with a next
   link to the following page or without; the chain of pages is finite *)
PageResponses(url, id) ==
    LET page == PageOf(url, id)
    IN  {PageResponse(PageItems(page, n), next) :
            n \in 0..MaxItems,
            next \in {NoUrl} \cup (IF page < MaxPages
                                   THEN {AlbumsUrl(id, page + 1)} ELSE {})}

(* the values a call returns *)
NoResult ==
    [kind |-> "unset", flag |-> FALSE, body |-> NoBody, items |-> <<>>,
     top_tracks |-> <<>>, related_artists |-> <<>>]
ReturnNone == [NoResult EXCEPT !.kind = "none"]
ReturnBool(b) == [NoResult EXCEPT !.kind = "bool", !.flag = b]
ReturnJson(body) == [NoResult EXCEPT !.kind = "json", !.body = body]
ReturnList(items) == [NoResult EXCEPT !.kind = "list", !.items = items]

(* not value: None, an empty dict and an empty list count as false *)
Falsy(result) ==
    \/ result.kind = "none"
    \/ result.kind = "json" /\ result.body = NoBody
    \/ result.kind = "list" /\ result.items = <<>>

(* value or [] *)
OrEmpty(result) == IF Falsy(result) THEN <<>> ELSE result.items

(* the dict of lines 199-239: the artist, the tracks, the albums and the
   first five related artists *)
ReturnDict(artist_info, top_tracks, albums, related_artists) ==
    [NoResult EXCEPT
        !.kind = "dict",
        !.body = artist_info.body,
        !.top_tracks = OrEmpty(top_tracks),
        !.items = OrEmpty(albums),
        !.related_artists =
            LET all == OrEmpty(related_artists)
            IN  SubSeq(all, 1, IF Len(all) < 5 THEN Len(all) ELSE 5)]

(* mutant: the comparison with the clock the wrong way round *)
TokenValid_inverted(token, expiry, time) ==
    /\ token # None
    /\ expiry # None
    /\ expiry.n < time

(* self.access_token and self.token_expiry and self.token_expiry > datetime.now() *)
TokenValid(token, expiry, time) ==
    /\ token # None
    /\ expiry # None
    /\ expiry.n > time

(* mutant: no default for a response without expires_in *)
ExpiresIn_nodefault(response) ==
    IF response.expires_in = None THEN 0 ELSE response.expires_in.n

(* response_data.get("expires_in", 3600) *)
ExpiresIn(response) ==
    IF response.expires_in = None THEN DefaultExpiresIn ELSE response.expires_in.n

(* mutant: a failed request clears the field *)
AfterFailure_cleared(field) == None

(* the except branch assigns nothing: a field keeps its value *)
AfterFailure(field) == field

(* mutant: the call goes on to its GET whatever authenticate returned *)
GivesUp_never(authenticated) == FALSE

(* if not self.authenticate(): return None *)
GivesUp(authenticated) == ~authenticated

(* mutant: each page replaces the albums collected so far *)
Extend_replace(all_albums, items) == items

(* all_albums.extend(results.get("items", [])) *)
Extend(all_albums, items) == all_albums \o items

(* the state of the object after __init__ *)
ServiceInit ==
    /\ access_token = None
    /\ token_expiry = None
    /\ now = 0
    /\ frame = [op |-> "none", pc |-> "idle", artist_id |-> "", auth |-> "none",
                response |-> NoResponse, url |-> NoUrl, all_albums |-> <<>>,
                result |-> NoResult, checked_at |-> 0, posted_at |-> 0,
                auths |-> 0,
                before_token |-> None, before_expiry |-> None,
                caller |-> "none", line |-> 0,
                artist_info |-> NoResult, top_tracks |-> NoResult,
                albums |-> NoResult]
    /\ log = <<>>

----------------------------------------------------------------------------
(* The tables the calls are given *)

SeqsUpTo(S, n) == UNION {[1..k -> S] : k \in 0..n}

(* 2020-12-31 (ISO 2020-W53), 2021-01-01 (ISO 2020-W53, another calendar
   year), 2021-01-04 (ISO 2021-W01, the same month) *)
AggDays == {18627, 18628, 18631}

(* a date text no calendar has: 2021-02-30 *)
BadDateText == Str(20210230)

ValueSet == 1..MaxValue

TsFrames ==
    {Frame("datetime64", rows) :
        rows \in SeqsUpTo({Row(Ts(d), v) : d \in AggDays, v \in ValueSet}, MaxRows)}

(* the same dates as text (dtype object), one of them possibly malformed *)
StrFrames ==
    {Frame("object", rows) :
        rows \in SeqsUpTo({Row(c, 1) : c \in {Str(FormatDate(d)) : d \in AggDays}
                                            \cup {BadDateText}}, MaxRows)}

(* the table of the tests: the date of row i of range(30) is datetime.now()
   less i days, the clock read again for every row, and the list is reversed;
   the values are 100, 110, ...  The clock first shows 2021-01-08 at any of
   its ticks, and from the at-th reading on it shows drift ticks more. *)
SampleFirstDay == DaysFromCivil(2020, 12, 10)

SampleLastDay == SampleFirstDay + SampleDays - 1

Now(first, at, drift, i) == first + (IF i >= at THEN drift ELSE 0)

SampleFrame(first, at, drift) ==
    Frame("datetime64",
          [r \in 1..SampleDays |->
              LET i == SampleDays - r
                  read == Now(first, at, drift, i)
              IN  Row(TsAt(SampleLastDay + (read \div TicksPerDay) - i, read % TicksPerDay),
                      SampleBase + (r - 1) * SampleStep)])

SampleFrames ==
    {SampleFrame(first, at, drift) :
        first \in 0..(TicksPerDay - 1), at \in 1..(SampleDays - 1), drift \in 0..MaxDrift}

InputFrames == TsFrames \cup StrFrames \cup SampleFrames

(* data[date].max() *)
MaxDate(df) ==
    CHOOSE m \in {df.rows[i]["date"] : i \in 1..Len(df.rows)} :
        \A i \in 1..Len(df.rows) : TsLeq(df.rows[i]["date"], m)

FilterBounds == {Ts(18628), Ts(18631)}

(* the bounds a caller passes: fixed ones, and the last 7 days of the table *)
FilterArgs(df) ==
    (FilterBounds \X FilterBounds)
    \cup (IF df.dtype = "datetime64" /\ df.rows # <<>>
          THEN {<<MinusDays(MaxDate(df), 6), MaxDate(df)>>} ELSE {})

(* the tables of the trend calculations: consecutive days, any small values,
   linear series, and the test table cut to every length *)
TrendValues == (-1)..MaxValue

SeriesFrame(values) ==
    Frame("datetime64",
          [i \in 1..Len(values) |-> Row(Ts(SampleFirstDay + i - 1), values[i])])

LinearSeries(a, step, n) == [i \in 1..n |-> a + (i - 1) * step]

TrendFrames ==
    {SeriesFrame(v) : v \in SeqsUpTo(TrendValues, MaxTrendRows)}
    \cup {SeriesFrame(LinearSeries(a, step, n)) :
            a \in 1..MaxStep, step \in 1..MaxStep, n \in 0..(MaxTrendRows + 1)}
    \cup {SeriesFrame(LinearSeries(SampleBase, SampleStep, n)) : n \in 0..SampleDays}

Windows == (1..MaxWindow) \cup {DefaultWindow}

(* the tables of the analytics calls: every short series, linear series and
   the prefixes of the sample series that reach past the window of 7 *)
AnalyticsFrames ==
    {SeriesFrame(v) : v \in SeqsUpTo(0..MaxValue, MaxFitRows)}
    \cup {SeriesFrame(LinearSeries(a, step, n)) :
            a \in 1..MaxStep, step \in 1..MaxStep, n \in 0..(MaxFitRows + 1)}
    \cup {SeriesFrame(LinearSeries(SampleBase, SampleStep, n)) :
            n \in 0..(ForecastWindow + MaxPeriods)}

(* each bound as a Timestamp or as the text of the same date *)
BoundForms(bound) == {bound, Str(FormatDate(bound.n))}

BoundArgs ==
    UNION {BoundForms(a) \X BoundForms(b) : a \in FilterBounds, b \in FilterBounds}

(* random.random(): a float64 k / 2^53 in [0, 1), another one at every call
   and in every run.  The runs of the model are numbered by a seed, and the
   i-th number of a run has nothing below its first RandomBits bits. *)
Seeds == 1..MaxSeed

Random(seed, i) == Frac((seed * i + seed - 1) % (2^RandomBits), 2^RandomBits)

(* the engagement table of the audience page: for every age group a row per
   metric, the metrics in the order of the list (Stream Completion, Save
   Rate, Share Rate, Repeat Listens; labels are numbered in sorted order),
   each value 0.1 + random.random() * 0.8 *)
MetricOrder == <<4, 2, 3, 1>>

EngagementValue(random) == Add64(Frac(1, 10), Mul64(random, Frac(4, 5)))

EngagementRows(seed) ==
    [i \in 1..(NAgeGroups * NMetrics) |->
        LET age_group == ((i - 1) \div NMetrics) + 1
            metric == MetricOrder[((i - 1) % NMetrics) + 1]
        IN  PivotRow(metric, age_group, EngagementValue(Random(seed, i)))]

(* a sequence without its k-th element *)
Without(rows, k) == SubSeq(rows, 1, k - 1) \o SubSeq(rows, k + 1, Len(rows))

(* tables for pivot_data: every short table over two metrics and two age
   groups, the full engagement table, the full table with one record more,
   and the full table with one combination missing *)
PivotFrames ==
    {PivotFrame(rows) :
        rows \in SeqsUpTo({PivotRow(m, a, Num(v)) : m \in 1..2, a \in 1..2, v \in ValueSet},
                          MaxPivotRows)}
    \cup {PivotFrame(EngagementRows(seed)) : seed \in Seeds}
    \cup {PivotFrame(Append(EngagementRows(seed), PivotRow(m, 1, Num(v)))) :
            seed \in Seeds, m \in 1..NMetrics, v \in ValueSet}
    \cup {PivotFrame(Without(EngagementRows(seed), k)) :
            seed \in Seeds, k \in 1..(NAgeGroups * NMetrics)}

(* artist ids, the tokens the accounts server hands out and the lifetimes it
   states: none (the default applies) or one second *)
ArtistIds == {"artist_id", "other_id"}

ArtistNames == {"Test Artist"}

TrackIds == {"track_id"}

(* the tracks or artists of a list answer *)
ListResponses == {PageResponse(PageItems(1, n), NoUrl) : n \in 0..MaxItems}

Tokens == {Text(1), Text(2)}

TokenResponses == {TokenResponse(token, e) : token \in Tokens, e \in {None, Num(1)}}

AggFuncs == {"sum", "mean", "count"}

(* index and columns: the two category columns, either way round *)
PivotAxes == {<<"metric", "age_group">>, <<"age_group", "metric">>}

(* method strings: the two supported ones and others, one differing in case only *)
Methods == {"linear", "moving_average", "exponential", "Linear"}

Periods == 0..MaxPeriods

(* values whose percentile rank is asked for *)
PercentileValues == {-2, 0, 1, 3}

(* the total argument: omitted, zero, or a number *)
Totals == {None, Num(0), Num(3)}

NoCall ==
    [op |-> "none", start |-> None, end |-> None, window |-> 0,
     total |-> None, method |-> "", periods |-> 0, value |-> 0,
     index |-> "", columns |-> "", aggfunc |-> ""]

NoExc == [type |-> "", message |-> ""]

(* pd.to_datetime rejects a text with a ValueError (its message is not modelled) *)
DateError == [type |-> "ValueError", message |-> ""]

Init ==
    /\ orig \in InputFrames
    /\ data = orig
    /\ pc = [t \in Threads |-> "idle"]
    /\ call = [t \in Threads |-> NoCall]
    /\ ret = [t \in Threads |-> NoFrame]
    /\ ncalls = 0
    /\ exc = [t \in Threads |-> NoExc]
    /\ ServiceInit

----------------------------------------------------------------------------
(* convert_to_weekly, a line at a time *)

Goto(t, label) == pc' = [pc EXCEPT ![t] = label]

Raise(t, e) == exc' = [exc EXCEPT ![t] = e]

EnterCall(t, c) ==
    /\ pc[t] = "idle"
    /\ ncalls < MaxCalls
    /\ ncalls' = ncalls + 1
    /\ call' = [call EXCEPT ![t] = c]

Enter(t, op, start, end, window) ==
    EnterCall(t, [NoCall EXCEPT !.op = op, !.start = start, !.end = end,
                                !.window = window])

(* the call and its test of the date column's dtype *)
weekly_call(t) ==
    /\ Enter(t, "weekly", None, None, 0)
    /\ Goto(t, IF is_datetime64_dtype(data) THEN "w12" ELSE "w9")
    /\ UNCHANGED <<svars, orig, data, ret, exc>>

(* data[date_column] = pd.to_datetime(data[date_column]); raises on a bad text *)
to_datetime_step(t, here, next) ==
    /\ pc[t] = here
    /\ IF ColumnParseable(data)
       THEN data' = ConvertDateColumn(data) /\ Goto(t, next) /\ UNCHANGED exc
       ELSE UNCHANGED data /\ Goto(t, "raised") /\ Raise(t, DateError)
    /\ UNCHANGED <<svars, orig, call, ret, ncalls>>

weekly_to_datetime(t) == to_datetime_step(t, "w9", "w12")

(* data['week'] = data[date_column].dt.isocalendar().week *)
weekly_set_week(t) ==
    /\ pc[t] = "w12"
    /\ data' = SetColumn(data, "week", WeekColumn(data))
    /\ Goto(t, "w13")
    /\ UNCHANGED <<svars, orig, call, ret, ncalls, exc>>

(* data['year'] = data[date_column].dt.isocalendar().year *)
weekly_set_year(t) ==
    /\ pc[t] = "w13"
    /\ data' = SetColumn(data, "year", IsoYearColumn(data))
    /\ Goto(t, "w16")
    /\ UNCHANGED <<svars, orig, call, ret, ncalls, exc>>

(* weekly_data = data.groupby(['year', 'week']).agg(...).reset_index(); return *)
weekly_groupby(t) ==
    /\ pc[t] = "w16"
    /\ ret' = [ret EXCEPT ![t] = groupby_agg(data, "week")]
    /\ Goto(t, "done")
    /\ UNCHANGED <<svars, orig, data, call, ncalls, exc>>

(* convert_to_monthly, a line at a time *)

monthly_call(t) ==
    /\ Enter(t, "monthly", None, None, 0)
    /\ Goto(t, IF is_datetime64_dtype(data) THEN "m30" ELSE "m27")
    /\ UNCHANGED <<svars, orig, data, ret, exc>>

monthly_to_datetime(t) == to_datetime_step(t, "m27", "m30")

(* data['month'] = data[date_column].dt.month *)
monthly_set_month(t) ==
    /\ pc[t] = "m30"
    /\ data' = SetColumn(data, "month", MonthColumn(data))
    /\ Goto(t, "m31")
    /\ UNCHANGED <<svars, orig, call, ret, ncalls, exc>>

(* data['year'] = data[date_column].dt.year *)
(* mutant: a 'year' column already in the table is kept *)
monthly_set_year_keep(t) ==
    /\ pc[t] = "m31"
    /\ data' = IF HasColumn(data, "year") THEN data
               ELSE SetColumn(data, "year", YearColumn(data))
    /\ Goto(t, "m34")
    /\ UNCHANGED <<svars, orig, call, ret, ncalls, exc>>

monthly_set_year(t) ==
    /\ pc[t] = "m31"
    /\ data' = SetColumn(data, "year", YearColumn(data))
    /\ Goto(t, "m34")
    /\ UNCHANGED <<svars, orig, call, ret, ncalls, exc>>

monthly_groupby(t) ==
    /\ pc[t] = "m34"
    /\ ret' = [ret EXCEPT ![t] = groupby_agg(data, "month")]
    /\ Goto(t, "done")
    /\ UNCHANGED <<svars, orig, data, call, ncalls, exc>>

(* filter_by_date_range, a line at a time *)

filter_call(t) ==
    \E a \in FilterArgs(orig) :
        /\ Enter(t, "filter", a[1], a[2], 0)
        /\ Goto(t, IF is_datetime64_dtype(data) THEN "f61" ELSE "f58")
        /\ UNCHANGED <<svars, orig, data, ret, exc>>

filter_to_datetime(t) == to_datetime_step(t, "f58", "f61")

(* the bounds given as text are parsed, then the rows in range are selected *)
filter_select(t) ==
    /\ pc[t] = "f61"
    /\ IF Parseable(call[t].start) /\ Parseable(call[t].end)
       THEN /\ ret' = [ret EXCEPT ![t] =
                         FilterRows(data, NormalizeBound(call[t].start),
                                    NormalizeBound(call[t].end))]
            /\ Goto(t, "done")
            /\ UNCHANGED exc
       ELSE UNCHANGED ret /\ Goto(t, "raised") /\ Raise(t, DateError)
    /\ UNCHANGED <<svars, orig, data, call, ncalls>>

(* the caller takes the result (or the exception) and is free to call again *)
finish(t) ==
    /\ pc[t] \in {"done", "raised"}
    /\ Goto(t, "idle")
    /\ call' = [call EXCEPT ![t] = NoCall]
    /\ ret' = [ret EXCEPT ![t] = NoFrame]
    /\ exc' = [exc EXCEPT ![t] = NoExc]
    /\ UNCHANGED <<svars, orig, data, ncalls>>

Next ==
    \E t \in Threads :
        \/ weekly_call(t)
        \/ weekly_to_datetime(t)
        \/ weekly_set_week(t)
        \/ weekly_set_year(t)
        \/ weekly_groupby(t)
        \/ monthly_call(t)
        \/ monthly_to_datetime(t)
        \/ monthly_set_month(t)
        \/ monthly_set_year(t)
        \/ monthly_groupby(t)
        \/ filter_call(t)
        \/ filter_to_datetime(t)
        \/ filter_select(t)
        \/ finish(t)

Spec == Init /\ [][Next]_vars

(* the same calls made one after the other, as a single-threaded caller makes them *)
OthersIdle(t) == \A u \in Threads \ {t} : pc[u] = "idle"

NextSeq ==
    \E t \in Threads :
        \/ OthersIdle(t) /\ weekly_call(t)
        \/ OthersIdle(t) /\ weekly_to_datetime(t)
        \/ OthersIdle(t) /\ weekly_set_week(t)
        \/ OthersIdle(t) /\ weekly_set_year(t)
        \/ OthersIdle(t) /\ weekly_groupby(t)
        \/ OthersIdle(t) /\ monthly_call(t)
        \/ OthersIdle(t) /\ monthly_to_datetime(t)
        \/ OthersIdle(t) /\ monthly_set_month(t)
        \/ OthersIdle(t) /\ monthly_set_year(t)
        \/ OthersIdle(t) /\ monthly_groupby(t)
        \/ OthersIdle(t) /\ filter_call(t)
        \/ OthersIdle(t) /\ filter_to_datetime(t)
        \/ OthersIdle(t) /\ filter_select(t)
        \/ OthersIdle(t) /\ finish(t)

SpecSeq == Init /\ [][NextSeq]_vars

----------------------------------------------------------------------------
(* The trend calculations: data.copy(), then columns added to the copy *)

InitTrend ==
    /\ orig \in TrendFrames
    /\ data = orig
    /\ pc = [t \in Threads |-> "idle"]
    /\ call = [t \in Threads |-> NoCall]
    /\ ret = [t \in Threads |-> NoFrame]
    /\ ncalls = 0
    /\ exc = [t \in Threads |-> NoExc]
    /\ ServiceInit

growth_rate_call(t) ==
    /\ Enter(t, "growth", None, None, 0)
    /\ ret' = [ret EXCEPT ![t] = calculate_growth_rate(data)]
    /\ data' = CallerTable(data, calculate_growth_rate(data))
    /\ Goto(t, "done")
    /\ UNCHANGED <<svars, orig, exc>>

moving_average_call(t) ==
    \E w \in Windows :
        /\ Enter(t, "ma", None, None, w)
        /\ ret' = [ret EXCEPT ![t] = calculate_moving_average(data, w)]
        /\ data' = CallerTable(data, calculate_moving_average(data, w))
        /\ Goto(t, "done")
        /\ UNCHANGED <<svars, orig, exc>>

percentages_call(t) ==
    \E total \in Totals :
        /\ EnterCall(t, [NoCall EXCEPT !.op = "pct", !.total = total])
        /\ ret' = [ret EXCEPT ![t] = calculate_percentages(data, total)]
        /\ data' = CallerTable(data, calculate_percentages(data, total))
        /\ Goto(t, "done")
        /\ UNCHANGED <<svars, orig, exc>>

NextTrend ==
    \E t \in Threads :
        \/ growth_rate_call(t)
        \/ moving_average_call(t)
        \/ percentages_call(t)
        \/ finish(t)

SpecTrend == InitTrend /\ [][NextTrend]_vars

----------------------------------------------------------------------------
(* The analytics calls on the same tables *)

InitAnalytics ==
    /\ orig \in AnalyticsFrames
    /\ data = orig
    /\ pc = [t \in Threads |-> "idle"]
    /\ call = [t \in Threads |-> NoCall]
    /\ ret = [t \in Threads |-> NoFrame]
    /\ ncalls = 0
    /\ exc = [t \in Threads |-> NoExc]
    /\ ServiceInit

(* the call ends: its value is returned or its exception propagates *)
Complete(t, outcome) ==
    /\ ret' = [ret EXCEPT ![t] = outcome.value]
    /\ exc' = [exc EXCEPT ![t] = outcome.exc]
    /\ Goto(t, IF outcome.ok THEN "done" ELSE "raised")

predict_call(t) ==
    \E method \in Methods, periods \in Periods :
        /\ EnterCall(t, [NoCall EXCEPT !.op = "predict", !.method = method,
                                       !.periods = periods])
        /\ \E outcome \in predict_future_value(data, periods, method) :
               Complete(t, outcome)
        /\ UNCHANGED <<svars, orig, data>>

percentile_call(t) ==
    \E value \in PercentileValues :
        /\ EnterCall(t, [NoCall EXCEPT !.op = "percentile", !.value = value])
        /\ Complete(t, calculate_percentile(data, value))
        /\ UNCHANGED <<svars, orig, data>>

NextAnalytics ==
    \E t \in Threads :
        \/ predict_call(t)
        \/ percentile_call(t)
        \/ finish(t)

SpecAnalytics == InitAnalytics /\ [][NextAnalytics]_vars

----------------------------------------------------------------------------
(* The filter called with text and Timestamp bounds *)

filter_bounds_call(t) ==
    \E a \in BoundArgs :
        /\ Enter(t, "filter", a[1], a[2], 0)
        /\ Goto(t, IF is_datetime64_dtype(data) THEN "f61" ELSE "f58")
        /\ UNCHANGED <<svars, orig, data, ret, exc>>

NextBounds ==
    \E t \in Threads :
        \/ filter_bounds_call(t)
        \/ filter_to_datetime(t)
        \/ filter_select(t)
        \/ finish(t)

SpecBounds == Init /\ [][NextBounds]_vars

----------------------------------------------------------------------------
(* The pivot table *)

InitPivot ==
    /\ orig \in PivotFrames
    /\ data = orig
    /\ pc = [t \in Threads |-> "idle"]
    /\ call = [t \in Threads |-> NoCall]
    /\ ret = [t \in Threads |-> NoFrame]
    /\ ncalls = 0
    /\ exc = [t \in Threads |-> NoExc]
    /\ ServiceInit

pivot_call(t) ==
    \E axes \in PivotAxes, aggfunc \in AggFuncs :
        /\ EnterCall(t, [NoCall EXCEPT !.op = "pivot", !.index = axes[1],
                                       !.columns = axes[2], !.aggfunc = aggfunc])
        /\ ret' = [ret EXCEPT ![t] = pivot_data(data, axes[1], axes[2], aggfunc)]
        /\ Goto(t, "done")
        /\ UNCHANGED <<svars, orig, data, exc>>

NextPivot ==
    \E t \in Threads :
        \/ pivot_call(t)
        \/ finish(t)

SpecPivot == InitPivot /\ [][NextPivot]_vars

----------------------------------------------------------------------------
(* The running total, on the tables of the trend calculations *)

cumulative_sum_call(t) ==
    /\ EnterCall(t, [NoCall EXCEPT !.op = "cumsum"])
    /\ ret' = [ret EXCEPT ![t] = calculate_cumulative_sum(data)]
    /\ Goto(t, "done")
    /\ UNCHANGED <<svars, orig, data, exc>>

NextCumsum ==
    \E t \in Threads :
        \/ cumulative_sum_call(t)
        \/ finish(t)

SpecCumsum == InitTrend /\ [][NextCumsum]_vars

----------------------------------------------------------------------------
(* The Spotify service: one caller, one call at a time, each call running
   line by line while the clock moves and the network answers or fails *)

dvars == <<orig, data, pc, call, ret, exc>>

InitSpotify ==
    /\ orig = NoFrame
    /\ data = NoFrame
    /\ pc = [t \in Threads |-> "idle"]
    /\ call = [t \in Threads |-> NoCall]
    /\ ret = [t \in Threads |-> NoFrame]
    /\ ncalls = 0
    /\ exc = [t \in Threads |-> NoExc]
    /\ ServiceInit

(* the frame of a method that has just been entered; each method starts by
   running authenticate, whose first line is 44 *)
Entered(f, op, id) ==
    [f EXCEPT
        !.op = op, !.pc = "a44", !.artist_id = id, !.auth = "none",
        !.response = NoResponse, !.url = NoUrl, !.all_albums = <<>>,
        !.result = NoResult, !.checked_at = 0, !.posted_at = 0,
        !.auths = 0,
        !.before_token = access_token, !.before_expiry = token_expiry]

(* a method of the service is called from outside *)
Activate(op, id) ==
    /\ frame.pc \in {"idle", "done"}
    /\ frame.caller = "none"
    /\ ncalls < MaxCalls
    /\ ncalls' = ncalls + 1
    /\ frame' = Entered(frame, op, id)
    /\ log' = <<>>
    /\ UNCHANGED <<dvars, access_token, token_expiry, now>>

authenticate_call == Activate("authenticate", "")

get_artist_call == \E id \in ArtistIds : Activate("get_artist", id)

get_artist_by_name_call == \E name \in ArtistNames : Activate("get_artist_by_name", name)

get_artist_top_tracks_call == \E id \in ArtistIds : Activate("get_artist_top_tracks", id)

get_artist_albums_call == \E id \in ArtistIds : Activate("get_artist_albums", id)

get_track_info_call == \E id \in TrackIds : Activate("get_track_info", id)

get_artist_related_call == \E id \in ArtistIds : Activate("get_artist_related", id)

(* format_artist_data is called: line 191 calls get_artist *)
format_artist_data_call ==
    /\ frame.pc \in {"idle", "done"}
    /\ frame.caller = "none"
    /\ ncalls < MaxCalls
    /\ ncalls' = ncalls + 1
    /\ \E id \in ArtistIds :
        frame' = [Entered(frame, "get_artist", id) EXCEPT
                     !.caller = "format_artist_data", !.line = 191,
                     !.artist_info = NoResult, !.top_tracks = NoResult,
                     !.albums = NoResult]
    /\ log' = <<>>
    /\ UNCHANGED <<dvars, access_token, token_expiry, now>>

(* the request a method sends once authenticate has returned True: where the
   method goes on and the URL it builds *)
Request(op, id) ==
    IF op = "get_artist" THEN [pc |-> "g74", url |-> ArtistUrl(id)]
    ELSE IF op = "get_artist_by_name" THEN [pc |-> "s94", url |-> SearchUrl(id)]
    ELSE IF op = "get_artist_top_tracks" THEN [pc |-> "t114", url |-> TopTracksUrl(id)]
    ELSE IF op = "get_track_info" THEN [pc |-> "k163", url |-> TrackUrl(id)]
    ELSE IF op = "get_artist_related" THEN [pc |-> "r178", url |-> RelatedUrl(id)]
    ELSE [pc |-> "b134", url |-> AlbumsUrl(id, 1)]

(* authenticate returns: to its caller if it was called directly, else into
   the method that called it (lines 68, 83, 107, 123, 157, 172) *)
AfterAuthenticate(f, authenticated) ==
    LET g == [f EXCEPT !.auth = IF authenticated THEN "true" ELSE "false"]
    IN  IF f.op = "authenticate"
        THEN [g EXCEPT !.pc = "done", !.result = ReturnBool(authenticated)]
        ELSE IF GivesUp(authenticated)
        THEN [g EXCEPT !.pc = "done", !.result = ReturnNone]
        ELSE [g EXCEPT !.pc = Request(f.op, f.artist_id).pc,
                       !.url = Request(f.op, f.artist_id).url]

Sent(verb, url, response) ==
    log' = Append(log, [verb |-> verb, url |-> url, response |-> response])

(* line 44: is the token still valid *)
authenticate_check ==
    /\ frame.pc = "a44"
    /\ LET f == [frame EXCEPT !.checked_at = now, !.auths = @ + 1]
       IN  frame' = IF TokenValid(access_token, token_expiry, now)
                    THEN AfterAuthenticate(f, TRUE)
                    ELSE [f EXCEPT !.pc = "a51"]
    /\ UNCHANGED <<dvars, ncalls, access_token, token_expiry, now, log>>

(* lines 51-52: the token request; lines 62-64 when it fails *)
authenticate_post ==
    /\ frame.pc = "a51"
    /\ \E response \in TokenResponses \cup {Failure} :
        /\ Sent("POST", AUTH_URL, response)
        /\ IF response.ok
           THEN /\ frame' = [frame EXCEPT !.pc = "a55", !.response = response,
                                           !.posted_at = now]
                /\ UNCHANGED <<access_token, token_expiry>>
           ELSE /\ frame' = AfterAuthenticate([frame EXCEPT !.posted_at = now], FALSE)
                /\ access_token' = AfterFailure(access_token)
                /\ token_expiry' = AfterFailure(token_expiry)
    /\ UNCHANGED <<dvars, ncalls, now>>

(* lines 54-61: the token and its expiry are stored, the clock is read again *)
authenticate_store ==
    /\ frame.pc = "a55"
    /\ access_token' = frame.response.access_token
    /\ token_expiry' = Time(now + ExpiresIn(frame.response))
    /\ frame' = AfterAuthenticate(frame, TRUE)
    /\ UNCHANGED <<dvars, ncalls, now, log>>

(* lines 73-79 of get_artist *)
artist_get ==
    /\ frame.pc = "g74"
    /\ \E response \in {ArtistResponse(frame.artist_id), Failure} :
        /\ Sent("GET", frame.url, response)
        /\ frame' = [frame EXCEPT
                        !.pc = "done",
                        !.result = IF response.ok THEN ReturnJson(response.body)
                                   ELSE ReturnNone]
    /\ UNCHANGED <<dvars, ncalls, access_token, token_expiry, now>>

(* a method that sends one GET and returns what it reads from the answer,
   or None when the request fails *)
Answered(at, responses, Read(_)) ==
    /\ frame.pc = at
    /\ \E response \in responses \cup {Failure} :
        /\ Sent("GET", frame.url, response)
        /\ frame' = [frame EXCEPT
                        !.pc = "done",
                        !.result = IF response.ok THEN Read(response) ELSE ReturnNone]
    /\ UNCHANGED <<dvars, ncalls, access_token, token_expiry, now>>

(* lines 93-103 of get_artist_by_name *)
search_get ==
    Answered("s94", {SearchResponse(found) : found \in BOOLEAN},
             LAMBDA r : IF r.body # NoBody THEN ReturnJson(r.body) ELSE ReturnNone)

(* lines 113-119 of get_artist_top_tracks *)
top_tracks_get == Answered("t114", ListResponses, LAMBDA r : ReturnList(r.items))

(* lines 162-168 of get_track_info *)
track_get ==
    Answered("k163", {TrackResponse(frame.artist_id)}, LAMBDA r : ReturnJson(r.body))

(* lines 177-183 of get_artist_related *)
related_get == Answered("r178", ListResponses, LAMBDA r : ReturnList(r.items))

(* a method that format_artist_data called has returned: lines 191-199 *)
format_artist_data_step ==
    /\ frame.caller = "format_artist_data"
    /\ frame.pc = "done"
    /\ LET back == [frame EXCEPT !.caller = "none", !.line = 0,
                                  !.op = "format_artist_data"]
           id == frame.artist_id
       IN  frame' =
              IF frame.line = 191
              THEN IF Falsy(frame.result)
                   THEN [back EXCEPT !.result = ReturnNone]
                   ELSE [Entered(frame, "get_artist_top_tracks", id) EXCEPT
                            !.line = 195, !.artist_info = frame.result]
              ELSE IF frame.line = 195
              THEN [Entered(frame, "get_artist_albums", id) EXCEPT
                       !.line = 196, !.top_tracks = frame.result]
              ELSE IF frame.line = 196
              THEN [Entered(frame, "get_artist_related", id) EXCEPT
                       !.line = 197, !.albums = frame.result]
              ELSE [back EXCEPT
                       !.result = ReturnDict(frame.artist_info, frame.top_tracks,
                                             frame.albums, frame.result)]
    /\ log' = <<>>
    /\ UNCHANGED <<dvars, ncalls, access_token, token_expiry, now>>

(* one turn of the loop of get_artist_albums, lines 133-153 *)
albums_get ==
    /\ frame.pc = "b134"
    /\ \E response \in PageResponses(frame.url, frame.artist_id) \cup {Failure} :
        /\ Sent("GET", frame.url, response)
        /\ frame' =
              IF ~response.ok
              THEN [frame EXCEPT !.pc = "done", !.result = ReturnNone]
              ELSE LET all == Extend(frame.all_albums, response.items)
                   IN  IF response.next = NoUrl
                       THEN [frame EXCEPT !.pc = "done", !.all_albums = all,
                                          !.url = NoUrl, !.result = ReturnList(all)]
                       ELSE [frame EXCEPT !.all_albums = all, !.url = response.next]
    /\ UNCHANGED <<dvars, ncalls, access_token, token_expiry, now>>

(* time passes: a second, or the default lifetime of a token *)
Pass(step) ==
    /\ IF step = 1 THEN now % DefaultExpiresIn < MaxTicks
                   ELSE now \div DefaultExpiresIn < MaxJumps
    /\ now' = now + step
    /\ UNCHANGED <<dvars, ncalls, access_token, token_expiry, frame, log>>

tick == \E step \in {1, DefaultExpiresIn} : Pass(step)

(* the lifetime of a token passes while a call is waiting *)
expire == Pass(DefaultExpiresIn)

(* authenticate and the methods that send one GET *)
NextSpotify ==
    \/ authenticate_call
    \/ get_artist_call
    \/ get_artist_by_name_call
    \/ get_artist_top_tracks_call
    \/ get_track_info_call
    \/ get_artist_related_call
    \/ authenticate_check
    \/ authenticate_post
    \/ authenticate_store
    \/ artist_get
    \/ search_get
    \/ top_tracks_get
    \/ track_get
    \/ related_get
    \/ tick

SpecSpotify == InitSpotify /\ [][NextSpotify]_vars

(* get_artist_albums *)
AlbumsStep ==
    \/ authenticate_check
    \/ authenticate_post
    \/ authenticate_store
    \/ albums_get

NextAlbums ==
    \/ get_artist_albums_call
    \/ authenticate_check
    \/ authenticate_post
    \/ authenticate_store
    \/ albums_get
    \/ expire

(* a call that has started goes on: every request is answered or fails *)
FairAlbums == InitSpotify /\ [][NextAlbums]_vars /\ WF_vars(AlbumsStep)

(* format_artist_data and the four methods it calls *)
NextFormat ==
    \/ format_artist_data_call
    \/ format_artist_data_step
    \/ authenticate_check
    \/ authenticate_post
    \/ authenticate_store
    \/ artist_get
    \/ top_tracks_get
    \/ albums_get
    \/ related_get
    \/ expire

SpecFormat == InitSpotify /\ [][NextFormat]_vars

----------------------------------------------------------------------------
(* Properties of the roll-ups and the filter *)

Returned(t, op) == pc[t] = "done" /\ call[t].op = op

(* the (date, value) pairs of a frame, dates as Timestamps *)
Records(df) ==
    [i \in 1..Len(df.rows) |-> <<to_datetime(df.rows[i]["date"]), df.rows[i]["value"].n>>]

(* C1: the value column of the table convert_to_weekly returns sums to the
   sum of the value column of the table it was given *)
C1_SumPreserved ==
    \A t \in Threads :
        Returned(t, "weekly") =>
            ColumnSum(ret[t], "value") = ColumnSum(orig, "value")

(* a weekly roll-up that merged several records into one week *)
C1_Witness ==
    \E t \in Threads :
        /\ Returned(t, "weekly")
        /\ Len(ret[t].rows) >= 1
        /\ Len(ret[t].rows) < Len(orig.rows)

(* C2: once a roll-up or a filter has returned, the table that was passed in
   has the columns and the values it had before the call *)
C2_InputUnchanged ==
    \A t \in Threads :
        pc[t] = "done" => data.columns = orig.columns /\ data.rows = orig.rows

(* C3: run concurrently on one table, convert_to_weekly and convert_to_monthly
   each return what they return when run alone on it *)
C3_SameAsAlone ==
    \A t \in Threads :
        /\ Returned(t, "weekly") => ret[t] = convert_to_weekly(orig)
        /\ Returned(t, "monthly") => ret[t] = convert_to_monthly(orig)

Between(date, t) ==
    TsLeq(to_datetime(call[t].start), date) /\ TsLeq(date, to_datetime(call[t].end))

(* the date of input record i *)
DateOf(i) == to_datetime(orig.rows[i]["date"])

(* the last 7 days of the table of the tests are asked for *)
LastWeekOfSample(t) ==
    /\ orig \in SampleFrames
    /\ call[t].end = MaxDate(orig)
    /\ call[t].start = MinusDays(call[t].end, 6)

(* the records are a day apart, each exactly one day after the one before *)
Daily(df) ==
    \A i \in 2..Len(df.rows) : df.rows[i]["date"] = MinusDays(df.rows[i - 1]["date"], -1)

(* C4: filter_by_date_range returns exactly the records with start <= date <=
   end, in their original order; from (max date - 6 days) to max date the
   30-day table of the tests gives 7 records, the latest of them at end and,
   the records being a day apart from each other, the earliest at start *)
C4_FilterExact ==
    \A t \in Threads :
        Returned(t, "filter") =>
            LET got == Records(ret[t])
                all == Records(orig)
            IN  /\ \A i \in 1..Len(got) : Between(got[i][1], t)
                /\ Len(got) = Cardinality({i \in 1..Len(all) : Between(all[i][1], t)})
                /\ got = SelectSeq(all, LAMBDA r : Between(r[1], t))
                /\ LastWeekOfSample(t) =>
                       /\ Len(got) = 7
                       /\ \A i \in 1..Len(got) : TsLeq(got[i][1], call[t].end)
                       /\ \E i \in 1..Len(got) : got[i][1] = call[t].end
                       /\ \A i \in 1..Len(got) : TsLeq(call[t].start, got[i][1])
                       /\ Daily(orig) => \E i \in 1..Len(got) : got[i][1] = call[t].start

(* the last 7 days of the 30-day table, its records a day apart and not at
   midnight, have been filtered out of it *)
C4_Witness ==
    \E t \in Threads :
        /\ Returned(t, "filter")
        /\ LastWeekOfSample(t)
        /\ Daily(orig)
        /\ call[t].start.u # 0
        /\ Len(ret[t].rows) = 7
        /\ ret[t].rows[1]["date"] = call[t].start
        /\ ret[t].rows[7]["date"] = call[t].end

(* the last 7 days of the 30-day table built while the clock went on: 7
   records again, the earliest of them later than start *)
C4_WitnessDrift ==
    \E t \in Threads :
        /\ Returned(t, "filter")
        /\ LastWeekOfSample(t)
        /\ ~Daily(orig)
        /\ Len(ret[t].rows) = 7
        /\ \A i \in 1..7 : ret[t].rows[i]["date"] # call[t].start

(* C5: filtering the result of a filter again with the same bounds returns
   the same records *)
C5_FilterIdempotent ==
    \A t \in Threads :
        Returned(t, "filter") =>
            filter_by_date_range(ret[t], call[t].start, call[t].end) = ret[t]

(* a filter that kept some records and dropped others *)
C5_Witness ==
    \E t \in Threads :
        /\ Returned(t, "filter")
        /\ Len(ret[t].rows) >= 1
        /\ Len(ret[t].rows) < Len(orig.rows)

----------------------------------------------------------------------------
(* Properties of the trend calculations *)

Values(df) == [i \in 1..Len(df.rows) |-> df.rows[i]["value"].n]

(* the cell is the number p / q: the float64 nearest to it *)
IsRatio(cell, p, q) == cell.k = "num" /\ cell.n * q = p * cell.d /\ cell.u = 0

(* the cell is p / q up to rounding: the float64 nearest to it or a
   neighbour of that one *)
IsRounded(cell, p, q) ==
    cell.k = "num" /\ cell.n * q = p * cell.d /\ cell.u \in {-1, 0, 1}

(* C6: row 0 of calculate_growth_rate has undefined previous_value and
   growth_rate; every later row whose predecessor is non-zero has
   previous_value = value[i-1] and growth_rate = (value[i] - value[i-1]) / value[i-1] *)
C6_GrowthRate ==
    \A t \in Threads :
        Returned(t, "growth") =>
            LET v == Values(orig)
                g == ret[t].rows
            IN  /\ Len(g) = Len(v)
                /\ Len(g) >= 1 =>
                       g[1]["previous_value"] = NaN /\ g[1]["growth_rate"] = NaN
                /\ \A i \in 2..Len(g) :
                       v[i - 1] # 0 =>
                           /\ g[i]["previous_value"] = Num(v[i - 1])
                           /\ IsRatio(g[i]["growth_rate"], v[i] - v[i - 1], v[i - 1])

(* a growth-rate table with a row that grew from a non-zero predecessor *)
C6_Witness ==
    \E t \in Threads :
        /\ Returned(t, "growth")
        /\ \E i \in 2..Len(orig.rows) :
               Values(orig)[i - 1] # 0 /\ Values(orig)[i] > Values(orig)[i - 1]

(* C7: when the previous row's value is 0, the growth rate is the undefined
   marker, never infinity, whatever the current row's value *)
C7_ZeroPreviousUndefined ==
    \A t \in Threads :
        Returned(t, "growth") =>
            \A i \in 2..Len(orig.rows) :
                Values(orig)[i - 1] = 0 => ret[t].rows[i]["growth_rate"] = NaN

(* value[i] = a + i*d with a > 0 and d > 0 *)
StrictlyLinear(v) ==
    /\ Len(v) >= 2
    /\ v[1] > 0
    /\ v[2] > v[1]
    /\ \A i \in 1..Len(v) : v[i] = v[1] + (i - 1) * (v[2] - v[1])

(* C8: for strictly linearly increasing positive input the growth rates do
   not increase from row 2 on: growth_rate[i] <= growth_rate[i-1] for i >= 2 *)
C8_GrowthNonIncreasing ==
    \A t \in Threads :
        Returned(t, "growth") /\ StrictlyLinear(Values(orig)) =>
            \A i \in 3..Len(ret[t].rows) :
                FLeq(ret[t].rows[i]["growth_rate"], ret[t].rows[i - 1]["growth_rate"])

(* the growth rates of the 30-day linear table of the tests *)
C8_Witness ==
    \E t \in Threads :
        /\ Returned(t, "growth")
        /\ orig \in SampleFrames
        /\ StrictlyLinear(Values(orig))

(* C9: calculate_moving_average adds the column value_ma<window>, undefined
   in the rows before the window is full and the arithmetic mean of
   value[i-window+1 .. i] from there on *)
C9_MovingAverage ==
    \A t \in Threads :
        Returned(t, "ma") =>
            LET w == call[t].window
                v == Values(orig)
                col == "value_ma" \o ToString(w)
            IN  /\ HasColumn(ret[t], col)
                /\ Len(ret[t].rows) = Len(v)
                /\ \A i \in 1..Len(v) :
                       IF i < w
                       THEN ret[t].rows[i][col] = NaN
                       ELSE IsRatio(ret[t].rows[i][col],
                                    SeqSum(SubSeq(v, i - w + 1, i)), w)

(* a moving average with rows before and after the window fills *)
C9_Witness ==
    \E t \in Threads :
        /\ Returned(t, "ma")
        /\ call[t].window >= 2
        /\ Len(orig.rows) > call[t].window
        /\ \E i, j \in 1..Len(orig.rows) : Values(orig)[i] # Values(orig)[j]

(* C10: for window 7 and value[i] = 100 + 10*i, the moving average of every
   row i >= 6 is the input value of row i-3 *)
C10_WindowCentre ==
    \A t \in Threads :
        /\ Returned(t, "ma")
        /\ call[t].window = 7
        /\ Values(orig) = [i \in 1..Len(orig.rows) |-> 100 + 10 * (i - 1)]
        => \A i \in 7..Len(orig.rows) :
               ret[t].rows[i]["value_ma7"] = Num(Values(orig)[i - 3])

(* the 7-day moving average of the 30-day table of the tests *)
C10_Witness ==
    \E t \in Threads :
        /\ Returned(t, "ma")
        /\ call[t].window = 7
        /\ orig \in SampleFrames
        /\ Len(ret[t].rows) = 30

----------------------------------------------------------------------------
(* Properties of the roll-ups called one after the other *)

(* the day of input record i *)
DayOf(i) == to_datetime(orig.rows[i]["date"]).n

(* the key of a day: (ISO year, ISO week) for "week", (year, month) for "month" *)
KeyOfDay(day, key2) ==
    IF key2 = "week" THEN <<isocalendar_year(day), isocalendar_week(day)>>
    ELSE <<dt_year(day), dt_month(day)>>

OutKey(row, key2) == <<row["year"].n, row[key2].n>>

LexLess(a, b) == a[1] < b[1] \/ (a[1] = b[1] /\ a[2] < b[2])

GroupingOk(out, key2) ==
    LET n == Len(orig.rows)
        inkeys == {KeyOfDay(DayOf(i), key2) : i \in 1..n}
    IN  /\ HasColumn(out, "year") /\ HasColumn(out, key2)
        /\ \A i \in 1..n :
               Cardinality({j \in 1..Len(out.rows) :
                               OutKey(out.rows[j], key2) = KeyOfDay(DayOf(i), key2)}) = 1
        /\ {OutKey(out.rows[j], key2) : j \in 1..Len(out.rows)} = inkeys
        /\ Len(out.rows) = Cardinality(inkeys)
        /\ Len(out.rows) <= n
        /\ \A j \in 1..(Len(out.rows) - 1) :
               LexLess(OutKey(out.rows[j], key2), OutKey(out.rows[j + 1], key2))

(* C11: the weekly roll-up has one row per (ISO year, ISO week) of the input
   and the monthly one per (year, month); every record falls in exactly one
   row, the rows carry the key columns and ascend strictly by key *)
C11_OneRowPerKey ==
    \A t \in Threads :
        /\ Returned(t, "weekly") => GroupingOk(ret[t], "week")
        /\ Returned(t, "monthly") => GroupingOk(ret[t], "month")

(* a weekly roll-up of several weeks on both sides of the ISO year's end *)
C11_Witness ==
    \E t \in Threads :
        /\ Returned(t, "weekly")
        /\ Len(ret[t].rows) >= 2
        /\ Len(ret[t].rows) < Len(orig.rows)
        /\ \E j \in 1..Len(ret[t].rows) : ret[t].rows[j]["year"].n = 2021

(* the input records of the group of an output row, in input order *)
Members(row, key2) ==
    SelectSeq([i \in 1..Len(orig.rows) |-> i],
              LAMBDA i : KeyOfDay(DayOf(i), key2) = OutKey(row, key2))

GroupValuesOk(out, key2) ==
    \A j \in 1..Len(out.rows) :
        LET m == Members(out.rows[j], key2)
        IN  /\ m # <<>>
            /\ out.rows[j]["date"] = to_datetime(orig.rows[m[1]]["date"])
            /\ out.rows[j]["value"] =
                   Num(SeqSum([k \in 1..Len(m) |-> orig.rows[m[k]]["value"].n]))
            /\ Len(m) = 1 => out.rows[j]["value"] = orig.rows[m[1]]["value"]

(* C12: each row of a roll-up carries the date of the first record of its
   group in input order and the sum of the group's values; a group of one
   record yields that record's date and value *)
C12_FirstDateAndSum ==
    \A t \in Threads :
        /\ Returned(t, "weekly") => GroupValuesOk(ret[t], "week")
        /\ Returned(t, "monthly") => GroupValuesOk(ret[t], "month")

(* a monthly group of two records whose later date comes first in the input *)
C12_Witness ==
    \E t \in Threads :
        /\ Returned(t, "monthly")
        /\ Len(orig.rows) = 2
        /\ Len(ret[t].rows) = 1
        /\ DayOf(1) > DayOf(2)

----------------------------------------------------------------------------
(* Malformed dates and empty tables *)

HasBadDate(df) == \E i \in 1..Len(df.rows) : df.rows[i]["date"] = BadDateText

(* C13: when the date of some record cannot be parsed, the roll-ups and the
   filter raise at the conversion, return no table, and leave the input
   table as it was *)
C13_BadDateRaises ==
    HasBadDate(orig) =>
        /\ data = orig
        /\ \A t \in Threads :
               /\ pc[t] \in {"idle", "w9", "m27", "f58", "raised"}
               /\ ret[t] = NoFrame
               /\ pc[t] = "raised" => exc[t].type = "ValueError"

(* a call has raised on a table with one good and one malformed date *)
C13_Witness ==
    \E t \in Threads :
        /\ pc[t] = "raised"
        /\ Len(orig.rows) = 2
        /\ HasBadDate(orig)
        /\ \E i \in 1..2 : orig.rows[i]["date"] # BadDateText

(* C14: on a table without records the roll-ups and the filter return a
   table without records and do not raise; the filter returns a table
   without records when no record lies in [start, end] *)
C14_EmptyInEmptyOut ==
    \A t \in Threads :
        /\ orig.rows = <<>> =>
               /\ pc[t] # "raised"
               /\ pc[t] = "done" => ret[t] # NoFrame /\ ret[t].rows = <<>>
        /\ (Returned(t, "filter") /\ \A i \in 1..Len(orig.rows) : ~Between(DateOf(i), t))
               => ret[t] # NoFrame /\ ret[t].rows = <<>>

(* a roll-up of an empty table whose date column is not datetime64 has returned,
   next to a filter of it *)
C14_Witness ==
    \E t, u \in Threads :
        /\ orig.rows = <<>>
        /\ orig.dtype = "object"
        /\ pc[t] = "done" /\ call[t].op \in {"weekly", "monthly"}
        /\ Returned(u, "filter")

----------------------------------------------------------------------------
(* Properties of the percentages *)

(* the exact sum of cells[lo..hi], added up by halves *)
RECURSIVE CellRange(_, _, _)
CellRange(cells, lo, hi) ==
    IF lo > hi THEN Num(0)
    ELSE IF lo = hi THEN cells[lo]
    ELSE LET mid == (lo + hi) \div 2
             left == CellRange(cells, lo, mid)
             right == CellRange(cells, mid + 1, hi)
         IN  FAdd(left, right)

CellSum(cells) == CellRange(cells, 1, Len(cells))

(* the total a call of calculate_percentages divides by *)
TotalOf(t) == IF call[t].total = None THEN SeqSum(Values(orig)) ELSE call[t].total.n

PctColumn(df) == [i \in 1..Len(df.rows) |-> df.rows[i]["value_pct"]]

(* the float64 sum of the cells, added from the first to the last *)
RECURSIVE Fold64(_, _, _, _)
Fold64(acc, cells, lo, hi) ==
    IF lo > hi THEN acc
    ELSE IF lo = hi THEN Add64(acc, cells[lo])
    ELSE LET mid == (lo + hi) \div 2
         IN  Fold64(Fold64(acc, cells, lo, mid), cells, mid + 1, hi)

Sum64(cells) == Fold64(Num(0), cells, 1, Len(cells))

NonNegative(v) == \A i \in 1..Len(v) : v[i] >= 0

(* C15, as stated: calculate_percentages adds value_pct = value / total * 100
   to every row, total being the sum of the column when omitted, in which
   case the percentages of a non-zero sum add up to 100 *)
C15_ExactPercentages ==
    \A t \in Threads :
        (Returned(t, "pct") /\ TotalOf(t) # 0) =>
            /\ HasColumn(ret[t], "value_pct")
            /\ Len(ret[t].rows) = Len(orig.rows)
            /\ \A i \in 1..Len(orig.rows) :
                   IsRatio(ret[t].rows[i]["value_pct"], Values(orig)[i] * 100, TotalOf(t))
            /\ (call[t].total = None /\ orig.rows # <<>>) =>
                   Sum64(PctColumn(ret[t])) = Num(100)

(* C15: calculate_percentages adds value_pct = value / total * 100 to every
   row, total being the sum of the column when omitted: each entry is the
   share 100 * value / total up to the rounding of the division and of the
   product, the shares of a non-zero own sum are 100 together, and the
   float64 sum of the entries of non-negative values is 100 up to two units
   in the last place for every row *)
C15_Percentages ==
    \A t \in Threads :
        (Returned(t, "pct") /\ TotalOf(t) # 0) =>
            /\ HasColumn(ret[t], "value_pct")
            /\ Len(ret[t].rows) = Len(orig.rows)
            /\ \A i \in 1..Len(orig.rows) :
                   IsRounded(ret[t].rows[i]["value_pct"], Values(orig)[i] * 100, TotalOf(t))
            /\ (call[t].total = None /\ orig.rows # <<>>) =>
                   /\ CellSum(PctColumn(ret[t])) = Num(100)
                   /\ NonNegative(Values(orig)) =>
                          LET sum == Sum64(PctColumn(ret[t]))
                          IN  /\ IsRatio([sum EXCEPT !.u = 0], 100, 1)
                              /\ Abs(sum.u) <= 2 * Len(orig.rows)

(* percentages of unequal values against their own non-zero sum, one of them
   a neighbour of the float64 nearest to the share, the float64 sum not 100 *)
C15_Witness ==
    \E t \in Threads :
        /\ Returned(t, "pct")
        /\ call[t].total = None
        /\ TotalOf(t) # 0
        /\ NonNegative(Values(orig))
        /\ \E i, j \in 1..Len(orig.rows) : Values(orig)[i] # Values(orig)[j]
        /\ \E i \in 1..Len(orig.rows) : ret[t].rows[i]["value_pct"].u # 0
        /\ Sum64(PctColumn(ret[t])) # Num(100)

(* percentages against a total passed by the caller *)
C15_WitnessTotal ==
    \E t \in Threads :
        /\ Returned(t, "pct")
        /\ call[t].total # None
        /\ TotalOf(t) # 0
        /\ \E i \in 1..Len(orig.rows) : ret[t].rows[i]["value_pct"].u # 0

(* C16: with a zero total calculate_percentages fails or yields the undefined
   marker in every row, never a finite number or infinity *)
C16_ZeroTotalUndefined ==
    \A t \in Threads :
        (Returned(t, "pct") /\ TotalOf(t) = 0) =>
            \A i \in 1..Len(ret[t].rows) : ret[t].rows[i]["value_pct"] = NaN

----------------------------------------------------------------------------
(* Properties of the forecasts and the percentile rank *)

Called(t, op) == call[t].op = op /\ pc[t] \in {"done", "raised"}

(* C17: for every method string other than 'linear' and 'moving_average'
   predict_future_value raises the unsupported-method error, its message
   naming the method, and no forecast value is computed or returned *)
C17_UnsupportedMethodRaises ==
    \A t \in Threads :
        (Called(t, "predict") /\ call[t].method \notin {"linear", "moving_average"}) =>
            /\ pc[t] = "raised"
            /\ exc[t].type = "ValueError"
            /\ exc[t].message = "Prediction method '" \o call[t].method \o "' not supported"
            /\ ret[t] = NoFrame

(* a method differing from a supported one in case only is refused, on a
   table that a supported method could forecast from *)
C17_Witness ==
    \E t \in Threads :
        /\ Called(t, "predict")
        /\ call[t].method = "Linear"
        /\ call[t].periods > 0
        /\ Len(orig.rows) >= 2
        /\ pc[t] = "raised"

(* the sum of the last w values of the column *)
LastSum(v, w) == SeqSum([j \in 1..w |-> v[Len(v) - w + j]])

MovingAverageForecastOk(t) ==
    LET n == Len(orig.rows)
        w == IF n < 7 THEN n ELSE 7
    IN  /\ pc[t] = "done"
        /\ ret[t].dtype = "array"
        /\ Len(ret[t].rows) = call[t].periods
        /\ \A k \in 1..Len(ret[t].rows) :
               IsRatio(ret[t].rows[k], LastSum(Values(orig), w), w)

(* C18 as stated: on every table the moving-average forecast returns
   `periods` values, each the mean of the last min(7, rows) values *)
C18_Original ==
    \A t \in Threads :
        (Called(t, "predict") /\ call[t].method = "moving_average") =>
            MovingAverageForecastOk(t)

(* C18, amended: on a table with at least one row the moving-average
   forecast returns exactly `periods` values, each the mean of the last
   min(7, rows) values of the column *)
C18_MovingAverageForecast ==
    \A t \in Threads :
        (Called(t, "predict") /\ call[t].method = "moving_average"
            /\ Len(orig.rows) >= 1) =>
            MovingAverageForecastOk(t)

(* a forecast of two periods from more than seven unequal values *)
C18_Witness ==
    \E t \in Threads :
        /\ Returned(t, "predict")
        /\ call[t].method = "moving_average"
        /\ call[t].periods = 2
        /\ Len(orig.rows) > 7
        /\ Len(ret[t].rows) = 2
        /\ ret[t].rows[1] # Num(Values(orig)[Len(orig.rows)])

(* a shorter table, where the window is the whole table *)
C18_WitnessShort ==
    \E t \in Threads :
        /\ Returned(t, "predict")
        /\ call[t].method = "moving_average"
        /\ call[t].periods > 0
        /\ Len(orig.rows) \in 2..6
        /\ \E i, j \in 1..Len(orig.rows) : Values(orig)[i] # Values(orig)[j]

(* sums over the points (i - 1, v[i]) *)
SumOver(v, F(_, _)) == SeqSum([i \in 1..Len(v) |-> F(i - 1, v[i])])

(* the least-squares line through the points evaluated at x, as the ratio
   p / q of integers: slope N / D and intercept (Sy * D - N * Sx) / (n * D) *)
LineNum(v, x) ==
    LET n == Len(v)
        Sx == SumOver(v, LAMBDA a, b : a)
        Sy == SumOver(v, LAMBDA a, b : b)
        Sxx == SumOver(v, LAMBDA a, b : a * a)
        Sxy == SumOver(v, LAMBDA a, b : a * b)
        D == n * Sxx - Sx * Sx
        N == n * Sxy - Sx * Sy
    IN  N * n * x + Sy * D - N * Sx

LineDen(v) ==
    LET n == Len(v)
        Sx == SumOver(v, LAMBDA a, b : a)
        Sxx == SumOver(v, LAMBDA a, b : a * a)
    IN  n * (n * Sxx - Sx * Sx)

(* the residuals of the line through two successive forecasts are orthogonal
   to 1 and to x: the normal equations of least squares *)
NormalEquations(v, f) ==
    LET n == Len(v)
        slope == FSub(f[2], f[1])
        intercept == FSub(f[1], FMul(slope, Num(n)))
        Residual(i) == FSub(Num(v[i]), FAdd(FMul(slope, Num(i - 1)), intercept))
    IN  /\ CellSum([i \in 1..n |-> Residual(i)]) = Num(0)
        /\ CellSum([i \in 1..n |-> FMul(Num(i - 1), Residual(i))]) = Num(0)
        /\ \A k \in 1..(Len(f) - 1) : FSub(f[k + 1], f[k]) = slope

IsLinear(v) ==
    /\ Len(v) >= 2
    /\ \A i \in 1..Len(v) : v[i] = v[1] + (i - 1) * (v[2] - v[1])

(* the forecasts are exactly the values of the least-squares line *)
Lows(f) == [k \in 1..Len(f) |-> f[k].lo]

LinearForecastExact(t) ==
    LET v == Values(orig)
        n == Len(v)
        f == ret[t].rows
    IN  /\ pc[t] = "done"
        /\ ret[t].dtype = "array"
        /\ Len(f) = call[t].periods
        /\ \A k \in 1..Len(f) : f[k].lo = f[k].hi
        /\ n >= 2 => \A k \in 1..Len(f) : IsRatio(f[k].lo, LineNum(v, n + k - 1), LineDen(v))
        /\ (n >= 2 /\ Len(f) >= 2) => NormalEquations(v, Lows(f))
        /\ IsLinear(v) =>
               \A k \in 1..Len(f) : f[k].lo = Num(v[1] + (v[2] - v[1]) * (n + k - 1))
        /\ n < 2 => \A k \in 1..Len(f) : f[k].lo.k = "num"

(* 2^e is the highest power of two not above the largest of |value|, |slope|
   and |intercept| of the line (e = 0 when all values are 0) *)
Reach(m, a, b, q) ==
    Max({e \in 0..10 : e = 0 \/ m >= 2^e \/ Abs(a) >= 2^e * q \/ Abs(b) >= 2^e * q})

LineExponent(v) ==
    Reach(Max({0} \cup {Abs(v[i]) : i \in 1..Len(v)}),
          LineNum(v, 1) - LineNum(v, 0), LineNum(v, 0), LineDen(v))

(* |x - p / q| <= c * 2^(e - 52) for a float64 x and integers p, q > 0, c:
   the three numbers multiplied by q * 2^128, which makes them integers *)
Gap(s, X, P) ==
    IF s < 0 THEN BAdd(X, P) ELSE IF BCmp(X, P) >= 0 THEN BSub(X, P) ELSE BSub(P, X)

Within(x, p, q, c, e) ==
    BCmp(Gap(x.s * Sign(p),
             IF x.s = 0 THEN <<>> ELSE BShl(BMul(x.m, BFromInt(q)), x.e + 128),
             BShl(BFromInt(Abs(p)), 128)),
         BShl(BFromInt(c * q), e - (MantissaBits - 1) + 128)) <= 0

(* the rounding a forecast at x may carry, in units of the last place of the
   largest number of the fit: in slope * x and in the intercept up to
   MaxSolverError from the solver and half a unit from the nearest float64,
   and no more than x from rounding the product and x + 1 from rounding the
   sum *)
Tolerance(x) == (MaxSolverError + 3) * (x + 1)

NearLine(cell, v, x) ==
    /\ cell.k = "num"
    /\ IF \A i \in 1..Len(v) : v[i] = 0 THEN cell = Num(0)
       ELSE Within(ToDouble(cell), LineNum(v, x), LineDen(v), Tolerance(x), LineExponent(v))

(* the forecasts are the values of the least-squares line up to rounding:
   both bounds of each forecast are near that value, which rounded to float64
   lies between them *)
LinearForecastOk(t) ==
    LET v == Values(orig)
        n == Len(v)
        f == ret[t].rows
    IN  /\ pc[t] = "done"
        /\ ret[t].dtype = "array"
        /\ Len(f) = call[t].periods
        /\ \A k \in 1..Len(f) :
               /\ NearLine(f[k].lo, v, n + k - 1)
               /\ NearLine(f[k].hi, v, n + k - 1)
               /\ FLeq(f[k].lo, Frac(LineNum(v, n + k - 1), LineDen(v)))
               /\ FLeq(Frac(LineNum(v, n + k - 1), LineDen(v)), f[k].hi)
        /\ IsLinear(v) =>
               \A k \in 1..Len(f) :
                   \A b \in {f[k].lo, f[k].hi} :
                       Within(ToDouble(b), v[1] + (v[2] - v[1]) * (n + k - 1), 1,
                              Tolerance(n + k - 1), LineExponent(v))

(* C19 as stated: on every table the linear forecast returns `periods`
   values, each the value of the least-squares line of value against row
   index *)
C19_Original ==
    \A t \in Threads :
        (Called(t, "predict") /\ call[t].method = "linear") => LinearForecastExact(t)

(* C19, amended: on a table with at least two rows the linear forecast
   returns exactly `periods` values, the k-th being the value at n + k of
   the least-squares line of value against the 0-based row index up to
   floating-point rounding: it differs from that value, and for exactly
   linear input a + b*i from a + b*(n + k), by no more than
   (MaxSolverError + 3) * (n + k + 1) units in the last place of the largest
   of the values and the two coefficients *)
C19_LinearForecast ==
    \A t \in Threads :
        (Called(t, "predict") /\ call[t].method = "linear" /\ Len(orig.rows) >= 2) =>
            LinearForecastOk(t)

(* a forecast of two periods from points that lie on no line, whose float64
   the source does not determine *)
C19_Witness ==
    \E t \in Threads :
        /\ Returned(t, "predict")
        /\ call[t].method = "linear"
        /\ call[t].periods = 2
        /\ Len(orig.rows) >= 3
        /\ ~IsLinear(Values(orig))
        /\ ret[t].rows[1].lo.d # 1
        /\ \A k \in 1..2 : ret[t].rows[k].lo # ret[t].rows[k].hi

(* a forecast at a zero of the line that may be below 0 and above 0 *)
C19_WitnessZero ==
    \E t \in Threads :
        /\ Returned(t, "predict")
        /\ call[t].method = "linear"
        /\ Len(orig.rows) >= 2
        /\ \E k \in 1..Len(ret[t].rows) :
               /\ LineNum(Values(orig), Len(orig.rows) + k - 1) = 0
               /\ ret[t].rows[k].lo.u < 0
               /\ ret[t].rows[k].hi.u > 0

(* a forecast from exactly linear input with a non-zero step that need not
   be exactly the next value of the input *)
C19_WitnessLinear ==
    \E t \in Threads :
        /\ Returned(t, "predict")
        /\ call[t].method = "linear"
        /\ call[t].periods = 2
        /\ IsLinear(Values(orig))
        /\ Values(orig)[2] # Values(orig)[1]
        /\ ret[t].rows[1].lo # ret[t].rows[1].hi

NotAbove(v, x) == Cardinality({i \in 1..Len(v) : v[i] <= x})

Rank(t) == ret[t].rows[1]

(* C20, as stated: on a non-empty dataset calculate_percentile returns
   100 * (number of values <= v) / (number of values): between 0 and 100,
   100 when v is at least the maximum, and non-decreasing in v *)
C20_ExactRank ==
    \A t \in Threads :
        (Called(t, "percentile") /\ orig.rows # <<>>) =>
            /\ pc[t] = "done"
            /\ ret[t].dtype = "scalar"
            /\ IsRatio(Rank(t), 100 * NotAbove(Values(orig), call[t].value), Len(orig.rows))
            /\ FLeq(Num(0), Rank(t))
            /\ FLeq(Rank(t), Num(100))
            /\ (\A i \in 1..Len(orig.rows) : Values(orig)[i] <= call[t].value) =>
                   Rank(t) = Num(100)
            /\ \A u \in Threads :
                   (Called(u, "percentile") /\ call[t].value <= call[u].value) =>
                       FLeq(Rank(t), Rank(u))

(* C20: on a non-empty dataset calculate_percentile returns (number of
   values <= v) / (number of values) * 100, which is 100 * count / number up
   to the rounding of the division and of the product: between 0 and 100,
   exactly 100 when v is at least the maximum, and non-decreasing in v *)
C20_PercentileRank ==
    \A t \in Threads :
        (Called(t, "percentile") /\ orig.rows # <<>>) =>
            /\ pc[t] = "done"
            /\ ret[t].dtype = "scalar"
            /\ IsRounded(Rank(t), 100 * NotAbove(Values(orig), call[t].value), Len(orig.rows))
            /\ FLeq(Num(0), Rank(t))
            /\ FLeq(Rank(t), Num(100))
            /\ (\A i \in 1..Len(orig.rows) : Values(orig)[i] <= call[t].value) =>
                   Rank(t) = Num(100)
            /\ \A u \in Threads :
                   (Called(u, "percentile") /\ call[t].value <= call[u].value) =>
                       FLeq(Rank(t), Rank(u))

(* two ranks of one dataset, the lower strictly between 0 and 100 and a
   neighbour of the float64 nearest to 100 * count / number, with a dataset
   value equal to the lower argument *)
C20_Witness ==
    \E t, u \in Threads :
        /\ Returned(t, "percentile")
        /\ Returned(u, "percentile")
        /\ call[t].value < call[u].value
        /\ Rank(t) # Num(0)
        /\ Rank(t).u # 0
        /\ Rank(t) # Rank(u)
        /\ \E i \in 1..Len(orig.rows) : Values(orig)[i] = call[t].value

----------------------------------------------------------------------------
(* Properties of the running total *)

(* C21: calculate_cumulative_sum returns a series as long as the input whose
   entry i is value[0] + ... + value[i]; the last entry is the column sum *)
C21_CumulativeSum ==
    \A t \in Threads :
        Returned(t, "cumsum") =>
            LET v == Values(orig)
                c == ret[t].rows
            IN  /\ ret[t].dtype = "series"
                /\ Len(c) = Len(v)
                /\ \A i \in 1..Len(c) :
                       c[i] = Num((IF i = 1 THEN 0 ELSE c[i - 1].n) + v[i])
                /\ Len(v) > 0 => c[Len(c)] = Num(SeqSum(v))

(* a running total over three or more values of both signs *)
C21_Witness ==
    \E t \in Threads :
        /\ Returned(t, "cumsum")
        /\ Len(orig.rows) >= 3
        /\ \E i, j \in 1..Len(orig.rows) : Values(orig)[i] < 0 /\ Values(orig)[j] > 0
        /\ ret[t].rows[Len(orig.rows)] # Num(Values(orig)[Len(orig.rows)])

----------------------------------------------------------------------------
(* Properties of the filter bounds *)

(* the day a bound names: a Timestamp's day, or the day whose date is the text *)
BoundDay(bound) ==
    IF bound.k = "ts" THEN bound.n
    ELSE CHOOSE d \in {b.n : b \in FilterBounds} : FormatDate(d) = bound.n

(* C22: filter_by_date_range returns the same records whether a bound is
   given as date text or as the equal Timestamp, in every combination: the
   result is the rows whose date lies between the days the bounds name, and
   two calls whose bounds name the same days return the same records *)
C22_BoundsNormalized ==
    \A t \in Threads :
        Returned(t, "filter") =>
            /\ Records(ret[t]) =
                   SelectSeq(Records(orig),
                             LAMBDA r : /\ TsLeq(Ts(BoundDay(call[t].start)), r[1])
                                        /\ TsLeq(r[1], Ts(BoundDay(call[t].end))))
            /\ \A u \in Threads :
                   (/\ Returned(u, "filter")
                    /\ BoundDay(call[u].start) = BoundDay(call[t].start)
                    /\ BoundDay(call[u].end) = BoundDay(call[t].end)) =>
                       ret[u].rows = ret[t].rows

(* text bounds and Timestamp bounds of the same days, each call keeping some
   records and dropping others *)
C22_Witness ==
    \E t, u \in Threads :
        /\ Returned(t, "filter")
        /\ Returned(u, "filter")
        /\ call[t].start.k = "str"
        /\ call[t].end.k = "str"
        /\ call[u].start.k = "ts"
        /\ call[u].end.k = "ts"
        /\ BoundDay(call[u].start) = BoundDay(call[t].start)
        /\ BoundDay(call[u].end) = BoundDay(call[t].end)
        /\ ret[t].rows # <<>>
        /\ Len(ret[t].rows) < Len(orig.rows)

(* one bound as text, the other as a Timestamp *)
C22_WitnessMixed ==
    \E t \in Threads :
        /\ Returned(t, "filter")
        /\ call[t].start.k = "str"
        /\ call[t].end.k = "ts"
        /\ ret[t].rows # <<>>
        /\ Len(ret[t].rows) < Len(orig.rows)

----------------------------------------------------------------------------
(* Properties of the pivot table *)

(* every label a category column can hold *)
LabelsOf(col) == IF col = "metric" THEN 1..NMetrics ELSE 1..NAgeGroups

(* the entry of a pivot table at (r, c); a label missing from an axis has no
   entry, which reads as unset just as NaN does *)
Entry(p, r, c) ==
    LET is == {i \in 1..Len(p.rows) : p.rows[i].label = r}
        js == {j \in 1..Len(p.columns) : p.columns[j] = c}
    IN  IF is = {} \/ js = {} THEN NaN
        ELSE p.rows[CHOOSE i \in is : TRUE].cells[CHOOSE j \in js : TRUE]

(* the rows of the table with index r and column c *)
RecordsAt(t, r, c) ==
    {i \in 1..Len(orig.rows) :
        orig.rows[i][call[t].index].n = r /\ orig.rows[i][call[t].columns].n = c}

(* the float64 sum of the values of those rows, added in row order *)
SumAt(t, r, c) ==
    LET at == SelectSeq([i \in 1..Len(orig.rows) |-> i], LAMBDA i : i \in RecordsAt(t, r, c))
    IN  Sum64([k \in 1..Len(at) |-> orig.rows[at[k]]["value"]])

DefinedEntries(t) ==
    {rc \in LabelsOf(call[t].index) \X LabelsOf(call[t].columns) :
        Entry(ret[t], rc[1], rc[2]) # NaN}

(* C23: pivot_data has a defined entry at (r, c) exactly when the table has a
   record with index r and column c, the entry being aggfunc over the values
   of those records; other combinations are unset, not zero; with all 4 x 6
   combinations present there are 24 defined entries *)
C23_PivotEntries ==
    \A t \in Threads :
        Returned(t, "pivot") =>
            /\ \A r \in LabelsOf(call[t].index), c \in LabelsOf(call[t].columns) :
                   LET n == Cardinality(RecordsAt(t, r, c))
                       e == Entry(ret[t], r, c)
                   IN  IF n = 0 THEN e = NaN
                       ELSE CASE call[t].aggfunc = "sum" -> e = SumAt(t, r, c)
                              [] call[t].aggfunc = "count" -> e = Num(n)
                              [] call[t].aggfunc = "mean" -> e = Div64(SumAt(t, r, c), Num(n))
            /\ (\A r \in 1..NMetrics, c \in 1..NAgeGroups :
                    \E i \in 1..Len(orig.rows) :
                        orig.rows[i]["metric"].n = r /\ orig.rows[i]["age_group"].n = c) =>
                   Cardinality(DefinedEntries(t)) = NMetrics * NAgeGroups

(* the full engagement table pivoted by metric and age group, its entries
   the values of the table *)
C23_Witness ==
    \E t \in Threads :
        /\ Returned(t, "pivot")
        /\ call[t].index = "metric"
        /\ call[t].aggfunc = "mean"
        /\ \E seed \in Seeds : orig.rows = EngagementRows(seed)
        /\ Entry(ret[t], 4, 1) = orig.rows[1]["value"]
        /\ \E i \in 1..Len(orig.rows) : orig.rows[i]["value"].u # 0
        /\ Cardinality(DefinedEntries(t)) = 24
        /\ Len(ret[t].rows) = 4
        /\ Len(ret[t].columns) = 6

(* a table with a combination missing between present ones, and a
   combination recorded twice *)
C23_WitnessUnset ==
    \E t \in Threads :
        /\ Returned(t, "pivot")
        /\ call[t].aggfunc = "mean"
        /\ Len(ret[t].rows) = 2
        /\ Len(ret[t].columns) = 2
        /\ Cardinality(DefinedEntries(t)) = 2

----------------------------------------------------------------------------
(* Properties of the copy-based calculations *)

(* the columns a call derives *)
DerivedColumns(t) ==
    CASE call[t].op = "growth" -> {"previous_value", "growth_rate"}
      [] call[t].op = "ma" -> {MaColumn(call[t].window)}
      [] call[t].op = "pct" -> {"value_pct"}
      [] OTHER -> {}

(* C24: calculate_growth_rate, calculate_moving_average and
   calculate_percentages leave the table they are given unchanged; the
   derived columns are in the returned table only, which keeps every
   original column and row in the original order *)
C24_CopyBased ==
    /\ data = orig
    /\ \A t \in Threads :
           (pc[t] = "done" /\ call[t].op \in {"growth", "ma", "pct"}) =>
               /\ \A c \in DerivedColumns(t) :
                      HasColumn(ret[t], c) /\ ~HasColumn(data, c)
               /\ SubSeq(ret[t].columns, 1, Len(orig.columns)) = orig.columns
               /\ Range(ret[t].columns) = Range(orig.columns) \cup DerivedColumns(t)
               /\ Len(ret[t].rows) = Len(orig.rows)
               /\ \A i \in 1..Len(orig.rows) :
                      /\ DOMAIN ret[t].rows[i] = DOMAIN orig.rows[i] \cup DerivedColumns(t)
                      /\ \A c \in DOMAIN orig.rows[i] : ret[t].rows[i][c] = orig.rows[i][c]

(* one table given to two of the calculations, both results in hand *)
C24_Witness ==
    /\ Len(orig.rows) >= 2
    /\ Returned(1, "growth")
    /\ Returned(2, "pct")
    /\ HasColumn(ret[1], "growth_rate")
    /\ ~HasColumn(ret[2], "growth_rate")

----------------------------------------------------------------------------
(* Properties of the Spotify service *)

Posts == SelectSeq(log, LAMBDA q : q.verb = "POST")
Gets == SelectSeq(log, LAMBDA q : q.verb = "GET")

(* the token request of the running call succeeded and its answer is stored *)
TokenGranted ==
    /\ Posts # <<>>
    /\ Posts[1].response.ok
    /\ frame.auth = "true"

(* the lifetime the answer states, 3600 seconds if it states none *)
Lifetime(response) ==
    IF response.expires_in = None THEN 3600 ELSE response.expires_in.n

FreshFieldsNone ==
    /\ ncalls = 0 => access_token = None /\ token_expiry = None
    /\ access_token = None <=> token_expiry = None

GrantStored ==
    /\ frame.op = "authenticate" =>
           frame.pc = "done" /\ frame.result = ReturnBool(TRUE)
    /\ access_token = Posts[1].response.access_token
    /\ token_expiry # None

(* C25 as stated: after a successful token request authenticate returns True,
   access_token is the token of the response and token_expiry is the time of
   the request plus expires_in (3600 if absent); a fresh service has None in
   both fields *)
C25_Original ==
    /\ FreshFieldsNone
    /\ TokenGranted =>
           /\ GrantStored
           /\ token_expiry.n = frame.posted_at + Lifetime(Posts[1].response)

(* C25, amended: after a successful token request authenticate returns True,
   access_token is the token of the response and token_expiry is the time
   read once the response is in, which is not before the time of the
   request, plus expires_in (3600 if absent); a fresh service has None in
   both fields *)
C25_Authenticate ==
    /\ FreshFieldsNone
    /\ TokenGranted =>
           /\ GrantStored
           /\ token_expiry.n - Lifetime(Posts[1].response) >= frame.posted_at
           /\ token_expiry.n - Lifetime(Posts[1].response) <= now

(* the first authenticate of a fresh service is answered with the test
   token and no expires_in *)
C25_Witness ==
    /\ ncalls = 1
    /\ frame.op = "authenticate"
    /\ frame.pc = "done"
    /\ TokenGranted
    /\ frame.before_token = None
    /\ access_token = Text(1)
    /\ Posts[1].response.expires_in = None
    /\ token_expiry.n >= 3600

(* no GET is sent unless authenticate returned True in this call, and then
   exactly one, to the URL of the artist *)
ArtistRequests ==
    /\ Gets # <<>> => frame.auth = "true"
    /\ frame.pc = "done" =>
           IF frame.auth = "true"
           THEN /\ Len(Gets) = 1
                /\ log[Len(log)] = Gets[1]
                /\ Gets[1].url = "https://api.spotify.com/v1/artists/" \o frame.artist_id
           ELSE Gets = <<>> /\ frame.result = ReturnNone

(* C26 as stated: get_artist sends its one GET only after authenticate
   returned True and returns the JSON body of the answer; without
   authentication it sends no GET and returns None *)
C26_Original ==
    frame.op = "get_artist" =>
        /\ ArtistRequests
        /\ (frame.pc = "done" /\ frame.auth = "true") =>
               /\ frame.result.kind = "json"
               /\ frame.result.body.id = frame.artist_id

(* C26, amended: get_artist sends its one GET only after authenticate
   returned True and returns the JSON body of the answer when the GET
   succeeds, None when it fails; without authentication it sends no GET and
   returns None *)
C26_GetArtist ==
    frame.op = "get_artist" =>
        /\ ArtistRequests
        /\ (frame.pc = "done" /\ frame.auth = "true") =>
               IF Gets[1].response.ok
               THEN /\ frame.result = ReturnJson(Gets[1].response.body)
                    /\ frame.result.body.id = frame.artist_id
               ELSE frame.result = ReturnNone

(* an artist fetched after a token request made in the same call *)
C26_Witness ==
    /\ frame.op = "get_artist"
    /\ frame.pc = "done"
    /\ Len(log) = 2
    /\ log[1].verb = "POST"
    /\ log[2].verb = "GET"
    /\ frame.result.kind = "json"
    /\ frame.result.body.id = "other_id"

(* the token the call found was still valid when line 44 looked at it *)
ValidBefore ==
    /\ frame.before_token # None
    /\ frame.before_expiry # None
    /\ frame.before_expiry.n > frame.checked_at

(* C28: an authenticate that finds a token whose expiry lies after the
   current time returns True, sends no token request and leaves access_token
   and token_expiry as they are; a token request is sent only when there is
   no token or the time has reached the expiry *)
C28_TokenReuse ==
    frame.auths >= 1 =>
        /\ ValidBefore =>
               /\ frame.auth = "true"
               /\ Posts = <<>>
               /\ access_token = frame.before_token
               /\ token_expiry = frame.before_expiry
               /\ frame.op = "authenticate" =>
                      frame.pc = "done" /\ frame.result = ReturnBool(TRUE)
        /\ (Posts # <<>> \/ frame.pc = "a51") =>
               \/ frame.before_token = None
               \/ frame.before_expiry.n <= frame.checked_at

(* a second authenticate, made later but before the expiry, reuses the token *)
C28_Witness ==
    /\ ncalls = 2
    /\ frame.op = "authenticate"
    /\ frame.pc = "done"
    /\ ValidBefore
    /\ frame.checked_at > 0
    /\ log = <<>>

(* a call made once the time has reached the expiry asks for a new token *)
C28_WitnessExpired ==
    /\ frame.op = "authenticate"
    /\ frame.before_token # None
    /\ frame.before_expiry.n = frame.checked_at
    /\ Posts # <<>>

(* C29: when the token request fails authenticate returns False and leaves
   access_token and token_expiry as they were, None or the expired token, so
   that the token is still not valid and a later call asks again *)
C29_FailureKeepsFields ==
    (Posts # <<>> /\ ~Posts[1].response.ok) =>
        /\ frame.auth = "false"
        /\ frame.op = "authenticate" =>
               frame.pc = "done" /\ frame.result = ReturnBool(FALSE)
        /\ access_token = frame.before_token
        /\ token_expiry = frame.before_expiry
        /\ ~(access_token # None /\ token_expiry.n > now)

(* a failed request of a service that holds an expired token *)
C29_Witness ==
    /\ frame.op = "authenticate"
    /\ frame.pc = "done"
    /\ Posts # <<>>
    /\ ~Posts[1].response.ok
    /\ frame.before_token # None
    /\ access_token = frame.before_token

----------------------------------------------------------------------------
(* Properties of aggregations run one after another *)

(* a date of the table whose ISO year is not its calendar year *)
YearsDiffer ==
    \E i \in 1..Len(orig.rows) :
        LET day == to_datetime(orig.rows[i]["date"]).n
        IN  isocalendar_year(day) # dt_year(day)

(* C27: when convert_to_weekly and convert_to_monthly are called one after
   another on one table, in any order, each call returns what it returns as
   the first call on a fresh copy of the table, although both write the
   column 'year' of the table *)
C27_OrderIndependent ==
    \A t \in Threads :
        (pc[t] = "done" /\ call[t].op \in {"weekly", "monthly"}) =>
            /\ HasColumn(data, "year")
            /\ ret[t] = IF call[t].op = "weekly" THEN convert_to_weekly(orig)
                        ELSE convert_to_monthly(orig)

(* a monthly roll-up made after a weekly one had written ISO years that are
   not the calendar years into the table *)
C27_Witness ==
    \E t \in Threads :
        /\ Returned(t, "monthly")
        /\ ncalls = 2
        /\ HasColumn(data, "week")
        /\ YearsDiffer
        /\ Len(ret[t].rows) >= 2

(* a weekly roll-up made after a monthly one *)
C27_WitnessWeekly ==
    \E t \in Threads :
        /\ Returned(t, "weekly")
        /\ ncalls = 2
        /\ HasColumn(data, "month")
        /\ YearsDiffer
        /\ Len(ret[t].rows) >= 2

----------------------------------------------------------------------------
(* Properties of the album pages *)

(* the items of the answered pages, one page after the other *)
RECURSIVE ItemsOf(_)
ItemsOf(gets) ==
    IF gets = <<>> THEN <<>> ELSE gets[1].response.items \o ItemsOf(Tail(gets))

AlbumsRunning == frame.op = "get_artist_albums" /\ frame.pc # "done"
AlbumsEnded == frame.op = "get_artist_albums" /\ frame.pc = "done"

(* authenticate runs once, ahead of every GET, whatever the clock does; the
   pages are asked for in the order of their next links *)
AlbumsRequests ==
    /\ frame.auths <= 1
    /\ Len(Posts) <= 1
    /\ Gets # <<>> => frame.auth = "true" /\ frame.auths = 1
    /\ \A i \in 1..Len(log) : log[i].verb = "POST" => i = 1
    /\ \A i \in 1..Len(Gets) :
           /\ Gets[i].url = AlbumsUrl(frame.artist_id, i)
           /\ i < Len(Gets) => Gets[i].response.ok /\ Gets[i].response.next # NoUrl

AlbumsResult ==
    IF frame.auth # "true" THEN Gets = <<>> /\ frame.result = ReturnNone
    ELSE LET last == Gets[Len(Gets)].response
         IN  IF last.ok
             THEN /\ last.next = NoUrl
                  /\ frame.result = ReturnList(ItemsOf(Gets))
                  /\ \A a, b \in 1..Len(frame.result.items) :
                         a < b =>
                             \/ frame.result.items[a].page < frame.result.items[b].page
                             \/ /\ frame.result.items[a].page = frame.result.items[b].page
                                /\ frame.result.items[a].no < frame.result.items[b].no
             ELSE frame.result = ReturnNone

C30_Safe ==
    frame.op = "get_artist_albums" =>
        /\ AlbumsRequests
        /\ frame.pc = "done" => AlbumsResult

(* C30: get_artist_albums follows the next links until a page has none; on
   a finite chain of pages the call ends and returns the items of all pages
   in page order, or None, dropping what it collected, once a page request
   fails; the token is checked once, before the first page *)
C30_Pagination == []C30_Safe /\ (AlbumsRunning ~> AlbumsEnded)

(* albums of two pages returned, the token having run out before the second
   page was asked for *)
C30_Witness ==
    /\ AlbumsEnded
    /\ frame.result.kind = "list"
    /\ Len(Gets) = 2
    /\ Len(frame.result.items) = 2
    /\ frame.result.items[2].page = 2
    /\ token_expiry.n <= now

(* a page request that fails after items were collected *)
C30_WitnessFailure ==
    /\ AlbumsEnded
    /\ frame.result = ReturnNone
    /\ frame.all_albums # <<>>
    /\ Len(Gets) = 2

=============================================================================
